---- MODULE Spec2Model ----
(***************************************************************************)
(* Retrieval and indexing engine of the NERC-CIP RAG server                *)
(* (src/ui/server.js): the in-memory corpus, the embedding cache, the      *)
(* standards registry, and the request handlers that read and mutate them. *)
(*                                                                         *)
(* Texts are TLA+ strings; JavaScript string indices are 0-based and are   *)
(* kept 0-based in the operators that model String methods.                *)
(***************************************************************************)
EXTENDS Integers, Sequences, FiniteSets, TLC

(***************************************************************************)
(* JavaScript String primitives used by server.js                          *)
(***************************************************************************)
Min(a, b) == IF a < b THEN a ELSE b
Max(a, b) == IF a > b THEN a ELSE b

\* s.charAt(i), 0-based; "" outside the string
charAt(s, i) == IF i >= 0 /\ i < Len(s) THEN SubSeq(s, i + 1, i + 1) ELSE ""

\* an index argument of slice: negative counts from the end, both clamped
clampIndex(n, a) == IF a < 0 THEN Max(n + a, 0) ELSE Min(a, n)
subOrEmpty(s, a1, b1) == IF a1 < b1 THEN SubSeq(s, a1 + 1, b1) ELSE ""
\* s.slice(a, b)
slice(s, a, b) == subOrEmpty(s, clampIndex(Len(s), a), clampIndex(Len(s), b))

\* the character class \s
IsSpace(c) == c \in {" ", "\n", "\t", "\r"}
\* the character class \d
IsDigit(c) == c \in {"0", "1", "2", "3", "4", "5", "6", "7", "8", "9"}
UpperLetters == "ABCDEFGHIJKLMNOPQRSTUVWXYZ"
LowerLetters == "abcdefghijklmnopqrstuvwxyz"
UpperSet == {SubSeq(UpperLetters, i, i) : i \in 1..26}
LowerSet == {SubSeq(LowerLetters, i, i) : i \in 1..26}
IsUpper(c) == c \in UpperSet
IsLower(c) == c \in LowerSet
\* the character class \w
IsWord(c) == IsUpper(c) \/ IsLower(c) \/ IsDigit(c) \/ c = "_"

lowerAt(i) == SubSeq(LowerLetters, i, i)
LowerOf == [u \in UpperSet |-> lowerAt(CHOOSE j \in 1..26 : SubSeq(UpperLetters, j, j) = u)]
lowerChar(c) == IF IsUpper(c) THEN LowerOf[c] ELSE c

RECURSIVE lowerFrom(_, _)
lowerFrom(s, i) ==
  IF i >= Len(s) THEN "" ELSE lowerChar(charAt(s, i)) \o lowerFrom(s, i + 1)
toLowerCase(s) == lowerFrom(s, 0)

\* s.startsWith(sub, i)
startsWithAt(s, sub, i) ==
  /\ i >= 0
  /\ i + Len(sub) <= Len(s)
  /\ SubSeq(s, i + 1, i + Len(sub)) = sub

\* s.includes(sub)
includes(s, sub) == \E i \in 0..Len(s) : startsWithAt(s, sub, i)

\* s.endsWith(sub)
endsWith(s, sub) == Len(sub) <= Len(s) /\ startsWithAt(s, sub, Len(s) - Len(sub))

maxOrMinus1(S) == IF S = {} THEN -1 ELSE CHOOSE i \in S : \A j \in S : j <= i
\* s.lastIndexOf(sub): the greatest start index of sub in s, or -1
lastIndexOf(s, sub) == maxOrMinus1({i \in 0..Len(s) : startsWithAt(s, sub, i)})

\* index of the first non-space character at or after i (Len(s) if none)
RECURSIVE skipSpaces(_, _)
skipSpaces(s, i) == IF IsSpace(charAt(s, i)) THEN skipSpaces(s, i + 1) ELSE i
\* index after the last non-space character before j (0 if none)
RECURSIVE skipSpacesBack(_, _)
skipSpacesBack(s, j) == IF IsSpace(charAt(s, j - 1)) THEN skipSpacesBack(s, j - 1) ELSE j

\* s.trim()
trimStart(s) == SubSeq(s, skipSpaces(s, 0) + 1, Len(s))
trimEnd(s) == SubSeq(s, 1, skipSpacesBack(s, Len(s)))
trim(s) == trimEnd(trimStart(s))

\* s.replace(/\s+/g, rep): every maximal run of whitespace becomes rep
RECURSIVE replaceFrom(_, _, _)
replaceFrom(s, rep, i) ==
  IF i >= Len(s) THEN ""
  ELSE IF IsSpace(charAt(s, i))
       THEN rep \o replaceFrom(s, rep, skipSpaces(s, i))
       ELSE charAt(s, i) \o replaceFrom(s, rep, i + 1)
replaceSpaceRuns(s, rep) == replaceFrom(s, rep, 0)

Digits == "0123456789"
\* String(n) for n >= 0
RECURSIVE numToString(_)
numToString(n) ==
  IF n < 10 THEN SubSeq(Digits, n + 1, n + 1)
  ELSE numToString(n \div 10) \o SubSeq(Digits, (n % 10) + 1, (n % 10) + 1)

\* parseInt(d, 10) of a string of decimal digits
digitValue(c) == CHOOSE v \in 0..9 : SubSeq(Digits, v + 1, v + 1) = c
RECURSIVE parseIntUpTo(_, _)
parseIntUpTo(d, n) ==
  IF n = 0 THEN 0 ELSE parseIntUpTo(d, n - 1) * 10 + digitValue(charAt(d, n - 1))
parseInt(d) == parseIntUpTo(d, Len(d))

\* s.padStart(width, "0")
RECURSIVE padStart(_, _)
padStart(s, width) == IF Len(s) >= width THEN s ELSE padStart("0" \o s, width)

(***************************************************************************)
(* Chunking: chunkText (server.js 70-92)                                   *)
(***************************************************************************)
TargetChars == 1000
Overlap == 300

\* Math.max of the three lastIndexOf calls (79-83)
lastStopOf(chunk) ==
  Max(Max(lastIndexOf(chunk, ". "), lastIndexOf(chunk, "; ")),
      lastIndexOf(toLowerCase(chunk), "purpose:"))

\* the window cut back to its last stop (84-86)
shorten(chunk, lastStop, short, targetChars) ==
  IF short /\ 2 * lastStop > targetChars THEN slice(chunk, 0, lastStop + 1) ELSE chunk

\* the chunk of the window starting at i, given its end (75-86)
windowChunk(clean, i, end, targetChars) ==
  shorten(slice(clean, i, end), lastStopOf(slice(clean, i, end)), end < Len(clean),
          targetChars)

\* the chunk of the loop iteration at window start i
chunkAt(clean, i, targetChars) ==
  windowChunk(clean, i, Min(Len(clean), i + targetChars), targetChars)

\* a step of the window start that adds the overlap
advancePlus(chunk, overlap) == Max(Len(chunk) + overlap, 1)
\* a step of the window start without the floor of 1
advanceBare(chunk, overlap) == Len(chunk) - overlap
\* the step of the window start (89)
advance(chunk, overlap) == Max(Len(chunk) - overlap, 1)
\* a push without the test of chunk.trim()
pushedAlways(chunks, chunk) == Append(chunks, chunk)
\* the array after the push of 88
pushed(chunks, chunk) == IF trim(chunk) # "" THEN Append(chunks, chunk) ELSE chunks

\* the while loop (74-90): chunkLoop tests the condition, chunkStep pushes
\* the chunk and advances i
RECURSIVE chunkLoop(_, _, _, _, _)
RECURSIVE chunkStep(_, _, _, _, _, _)
chunkStep(clean, i, chunks, targetChars, overlap, chunk) ==
  chunkLoop(clean, i + advance(chunk, overlap),
            pushed(chunks, chunk), targetChars, overlap)
chunkLoop(clean, i, chunks, targetChars, overlap) ==
  IF i < Len(clean)
  THEN chunkStep(clean, i, chunks, targetChars, overlap, chunkAt(clean, i, targetChars))
  ELSE chunks

chunkText(txt, targetChars, overlap) ==
  chunkLoop(trim(replaceSpaceRuns(txt, " ")), 0, <<>>, targetChars, overlap)

(***************************************************************************)
(* Vector math (server.js 65-67).  Vectors are tuples of integers whose    *)
(* norms are integers, so that cosine similarity is an exact rational.     *)
(***************************************************************************)
RECURSIVE dotUpTo(_, _, _)
dotUpTo(a, b, n) == IF n = 0 THEN 0 ELSE dotUpTo(a, b, n - 1) + a[n] * b[n]
\* dot iterates over a.length; a missing b[i] makes the sum NaN
dotIsNaN(a, b) == Len(a) > Len(b)
dot(a, b) == dotUpTo(a, b, Len(a))
\* Math.sqrt on the perfect squares the model's vectors produce
sqrt(d) == CHOOSE r \in 0..d : r * r = d
norm(a) == sqrt(dot(a, a))

\* na && nb ? dot(a, b) / (na * nb) : 0 as the rational <<numerator,
\* denominator>>, denominator > 0
ratio(d, na, nb) == IF na = 0 \/ nb = 0 THEN <<0, 1>> ELSE <<d, na * nb>>
\* cosineSim(a, b) || 0: a NaN similarity counts as 0
cosineSim(a, b) == IF dotIsNaN(a, b) THEN <<0, 1>> ELSE ratio(dot(a, b), norm(a), norm(b))

(***************************************************************************)
(* Embedding service and cache keys                                        *)
(***************************************************************************)
\* hashText: SHA-256 is collision-free on the model's texts; the key keeps
\* the digest apart from the text it was computed from
hashText(text) == <<"sha256", text>>

\* The external embedding model: a fixed function of the text (a stable
\* model), yielding a non-empty vector of the model's dimensionality.
ModelVectors == <<(<<1, 0>>), (<<3, 4>>), (<<0, 1>>), (<<4, 3>>)>>
EmbeddingModel(text) == ModelVectors[(Len(text) % 4) + 1]

(***************************************************************************)
(* Hybrid retrieval: normalize, keywordScore, retrieveTopK                 *)
(* (server.js 519-583)                                                     *)
(***************************************************************************)
normalize(s) == trim(replaceSpaceRuns(toLowerCase(s), " "))

\* number of leading characters of s from index i on that are digits
RECURSIVE digitRun(_, _)
digitRun(s, i) == IF IsDigit(charAt(s, i)) THEN 1 + digitRun(s, i + 1) ELSE 0

IsSep(c) == c = "-" \/ IsSpace(c)
\* index after an optional [-\s] at index j
afterSep(s, j) == IF IsSep(charAt(s, j)) THEN j + 1 ELSE j

\* (-\d+)? at index k: the index after the optional version suffix
afterVersion(s, k) ==
  IF charAt(s, k) = "-" /\ digitRun(s, k + 1) >= 1 THEN k + 1 + digitRun(s, k + 1) ELSE k

\* 0?\d{2}(-\d+)? at index j: the index after the match, or -1.  The
\* optional 0 is greedy and given back when two digits do not follow it.
idDigitsEnd(s, j) ==
  IF charAt(s, j) = "0" /\ digitRun(s, j + 1) >= 2 THEN afterVersion(s, j + 3)
  ELSE IF digitRun(s, j) >= 2 THEN afterVersion(s, j + 2)
  ELSE -1

\* /cip[-\s]?0?\d{2}(-\d+)?/ anchored at index i of the lower-case s: the
\* index after the match, or -1
idMatchEnd(s, i) ==
  IF startsWithAt(s, "cip", i) THEN idDigitsEnd(s, afterSep(s, i + 3)) ELSE -1

\* s.match(/.../g): the successive non-overlapping matches, left to right
RECURSIVE idMatchesFrom(_, _)
idMatchesFrom(s, i) ==
  IF i >= Len(s) THEN <<>>
  ELSE IF idMatchEnd(s, i) = -1 THEN idMatchesFrom(s, i + 1)
  ELSE <<slice(s, i, idMatchEnd(s, i))>> \o idMatchesFrom(s, idMatchEnd(s, i))

\* q.match(/.../i)[0]: the first match in the query as typed, or "";
\* l is the query in lower case
RECURSIVE idMatchFirstFrom(_, _, _)
idMatchFirstFrom(s, l, i) ==
  IF i >= Len(s) THEN ""
  ELSE IF idMatchEnd(l, i) = -1 THEN idMatchFirstFrom(s, l, i + 1)
  ELSE slice(s, i, idMatchEnd(l, i))
idMatchFirst(s) == idMatchFirstFrom(s, toLowerCase(s), 0)

FixedKeys ==
  <<"purpose", "objective", "to protect", "confidentiality", "integrity",
    "communications between control centers">>

\* /\bpurpose\s*:/.test(c)
hasPurposeHeader(c) ==
  \E i \in 0..Len(c) :
    /\ startsWithAt(c, "purpose", i)
    /\ ~IsWord(charAt(c, i - 1))
    /\ charAt(c, skipSpaces(c, i + 7)) = ":"

\* a keys array that holds the identifiers of the query and nothing else
keysOfQueryOnly(ids) == [n \in 1..Len(ids) |-> replaceSpaceRuns(ids[n], "")]

\* the keys array (524-527): the identifiers of the query without
\* whitespace, then the fixed phrases
keysOf(ids) == [n \in 1..Len(ids) |-> replaceSpaceRuns(ids[n], "")] \o FixedKeys

\* the loop over keys and the header boost (529-531) on the normalized chunk
countKeys(keys, c) ==
  Cardinality({n \in 1..Len(keys) : keys[n] # "" /\ includes(c, keys[n])})
    + (IF hasPurposeHeader(c) THEN 3 ELSE 0)

\* the keys depend on the query alone
queryKeys(query) == keysOf(idMatchesFrom(normalize(query), 0))
keywordScoreOf(keys, chunk) == countKeys(keys, normalize(chunk))

keywordScore(query, chunk) == keywordScoreOf(queryKeys(query), chunk)

\* Array.prototype.slice(a, b) on a sequence, indices as in slice above
subSeqOrEmpty(s, a1, b1) == IF a1 < b1 THEN SubSeq(s, a1 + 1, b1) ELSE <<>>
sliceSeq(s, a, b) == subSeqOrEmpty(s, clampIndex(Len(s), a), clampIndex(Len(s), b))

\* Array.isArray(c.embedding) && c.embedding.length
validEmbedding(c) == Len(c.embedding) > 0

KeywordCap == 6
FilenameBoost == 5
SourceBoost == 3

\* the filename and source boosts (549-558) for the normalized query
filenameBoost(qNorm, fname, sourceLabel) ==
  (IF fname # "" /\ includes(qNorm, fname) THEN FilenameBoost ELSE 0)
    + (IF sourceLabel # "" /\ includes(qNorm, sourceLabel) THEN SourceBoost ELSE 0)

\* kw of a corpus entry: keywordScore plus the boosts (546-560); keys and
\* qNorm are the keys and the normal form of the query, the same for
\* every entry
entryKw(keys, qNorm, c) ==
  keywordScoreOf(keys, c.chunk)
    + filenameBoost(qNorm, toLowerCase(c.meta.filename), toLowerCase(c.source))

\* cos * 0.7 + min(kw, 6) * 0.3 as the rational <<numerator, denominator>>
blended(cos, kw) == <<7 * cos[1] + 3 * Min(kw, KeywordCap) * cos[2], 10 * cos[2]>>

\* a.score - b.score as a sign-preserving integer
scoreDiff(a, b) == a[1] * b[2] - b[1] * a[2]

\* one element of the array built by .map((c, idx) => ...): idx is the
\* position in the filtered array
scoreRecord(idx, cos, kw) == [idx |-> idx, cos |-> cos, kw |-> kw, score |-> blended(cos, kw)]
scoreEntry(keys, qNorm, qvec, c, idx) ==
  scoreRecord(idx, cosineSim(qvec, c.embedding), entryKw(keys, qNorm, c))

\* .sort((a, b) => b.score - a.score): stable, descending
RECURSIVE insertByScore(_, _)
insertByScore(sorted, x) ==
  IF sorted = <<>> THEN <<x>>
  ELSE IF scoreDiff(x.score, Head(sorted).score) > 0
       THEN <<x>> \o sorted
       ELSE <<Head(sorted)>> \o insertByScore(Tail(sorted), x)
RECURSIVE sortUpTo(_, _)
sortUpTo(xs, n) == IF n = 0 THEN <<>> ELSE insertByScore(sortUpTo(xs, n - 1), xs[n])
sortByScore(xs) == sortUpTo(xs, Len(xs))

\* .filter(...).map(...) (542-564) over the entries with a valid embedding
scoreWith(valid, keys, qNorm, qvec) ==
  [n \in 1..Len(valid) |-> scoreEntry(keys, qNorm, qvec, valid[n], n - 1)]
scoreAll(valid, q, qvec) == scoreWith(valid, queryKeys(q), normalize(q), qvec)

\* the ranked list without the .slice(0, k)
scoredUncut(corp, q, qvec, k) ==
  sortByScore(scoreAll(SelectSeq(corp, validEmbedding), q, qvec))

\* the ranked, truncated list `scored` (542-566)
scoredTopK(corp, q, qvec, k) ==
  sliceSeq(sortByScore(scoreAll(SelectSeq(corp, validEmbedding), q, qvec)), 0, k)

\* the loop collecting exacts (574-577): corpus indices (0-based) whose
\* text without whitespace contains the identifier
RECURSIVE exactsFrom(_, _, _)
exactsFrom(corp, normId, i) ==
  IF i >= Len(corp) THEN <<>>
  ELSE (IF includes(replaceSpaceRuns(normalize(corp[i + 1].chunk), ""), normId)
        THEN <<i>> ELSE <<>>) \o exactsFrom(corp, normId, i + 1)

\* a fallback that scans for the identifier whatever the ranked entries scored
exactsAlways(corp, scored, id) ==
  IF id # ""
  THEN exactsFrom(corp, replaceSpaceRuns(toLowerCase(id), ""), 0)
  ELSE <<>>

\* the exacts of the fallback (569-577): empty unless no ranked entry has a
\* keyword score and the query holds an identifier
exactsOf(corp, scored, id) ==
  IF (\A n \in 1..Len(scored) : scored[n].kw <= 0) /\ id # ""
  THEN exactsFrom(corp, replaceSpaceRuns(toLowerCase(id), ""), 0)
  ELSE <<>>

\* .map(e => corpus[e.idx]) over 0-based indices
entriesAt(corp, idxs) == [n \in 1..Len(idxs) |-> corp[idxs[n] + 1]]
scoredIdx(scored) == [n \in 1..Len(scored) |-> scored[n].idx]

\* the two return statements (578, 582)
pickResult(corp, scored, exacts, k) ==
  IF exacts # <<>> THEN entriesAt(corp, sliceSeq(exacts, 0, k))
  ELSE entriesAt(corp, scoredIdx(scored))

fallbackOrRanked(corp, scored, id, k) == pickResult(corp, scored, exactsOf(corp, scored, id), k)

\* retrieveTopK after the query embedding has arrived (542-582)
rankCorpus(corp, q, qvec, k) ==
  fallbackOrRanked(corp, scoredTopK(corp, q, qvec, k), idMatchFirst(q), k)

(***************************************************************************)
(* Standards registry (server.js 168-221)                                  *)
(***************************************************************************)
NoStd == [base |-> "", versioned |-> ""]

\* (\d{1,3})[-\s]?(\d+) at index j of s, where run digits start: <<m[1],
\* m[2]>> or <<>>.  \d{1,3} is greedy and gives a digit back when (\d+)
\* cannot match otherwise.
stdDigits(s, j, run) ==
  IF run = 0 THEN <<>>
  ELSE IF run > 3 THEN <<slice(s, j, j + 3), slice(s, j + 3, j + run)>>
  ELSE IF IsSep(charAt(s, j + run)) /\ digitRun(s, j + run + 1) >= 1
       THEN <<slice(s, j, j + run),
              slice(s, j + run + 1, j + run + 1 + digitRun(s, j + run + 1))>>
  ELSE IF run >= 2 THEN <<slice(s, j, j + run - 1), slice(s, j + run - 1, j + run)>>
  ELSE <<>>

\* /CIP[-\s]?(\d{1,3})[-\s]?(\d+)/ anchored at index i of the lower-case s
stdAfterCip(s, j) == stdDigits(s, j, digitRun(s, j))
stdMatchAt(s, i) == IF startsWithAt(s, "cip", i) THEN stdAfterCip(s, afterSep(s, i + 3)) ELSE <<>>

\* pdfName.match(...): the leftmost match
RECURSIVE stdMatchFrom(_, _)
stdMatchFrom(s, i) ==
  IF i >= Len(s) THEN <<>>
  ELSE IF stdMatchAt(s, i) # <<>> THEN stdMatchAt(s, i)
  ELSE stdMatchFrom(s, i + 1)
stdMatch(pdfName) == stdMatchFrom(toLowerCase(pdfName), 0)

\* { base, versioned } built from the match (180-186)
stdOf(base, versionNum) == [base |-> base, versioned |-> base \o "-" \o numToString(versionNum)]
stdOfMatch(m) == IF m = <<>> THEN NoStd ELSE stdOf("CIP-" \o padStart(m[1], 3), parseInt(m[2]))
versionOfMatch(m) == IF m = <<>> THEN 0 ELSE parseInt(m[2])

\* the value registerStandardFromFilename returns: { base, versioned } or null
parseStandard(pdfName) == stdOfMatch(stdMatch(pdfName))
versionOf(pdfName) == versionOfMatch(stdMatch(pdfName))

\* Array.prototype.includes on a sequence
includesElem(xs, x) == \E n \in 1..Len(xs) : xs[n] = x

\* a branch that takes the version registered last for the latest one
updateEntryLast(existing, versioned, ver, vs) ==
  [versions |-> vs, latest |-> versioned, latestVersion |-> ver]

\* the branch for a base already registered (196-202)
updateEntry(existing, versioned, ver, vs) ==
  IF ver > existing.latestVersion
  THEN [versions |-> vs, latest |-> versioned, latestVersion |-> ver]
  ELSE [existing EXCEPT !.versions = vs]
pushVersion(versions, versioned) ==
  IF includesElem(versions, versioned) THEN versions ELSE Append(versions, versioned)

\* the registry after the registration of std with version number ver
registerStd(map, std, ver) ==
  IF std = NoStd THEN map
  ELSE IF std.base \notin DOMAIN map
  THEN (std.base :> [versions |-> <<std.versioned>>, latest |-> std.versioned,
                     latestVersion |-> ver]) @@ map
  ELSE [map EXCEPT ![std.base] =
          updateEntry(@, std.versioned, ver, pushVersion(@.versions, std.versioned))]

\* the registry after registerStandardFromFilename(pdfName)
registerStandardFromFilename(map, pdfName) ==
  registerStd(map, parseStandard(pdfName), versionOf(pdfName))

\* end of (\d{1,3})(?![-\s]?\d)\b at index j of the lower-case l, where run
\* digits start: the index after the match, or -1
bareDigitsEnd(l, j, run) ==
  IF /\ run >= 1 /\ run <= 3
     /\ ~IsWord(charAt(l, j + run))
     /\ ~(IsSep(charAt(l, j + run)) /\ IsDigit(charAt(l, j + run + 1)))
  THEN j + run ELSE -1

bareAfterCip(l, j) == bareDigitsEnd(l, j, digitRun(l, j))

\* /\bCIP[-\s]?(\d{1,3})(?![-\s]?\d)\b/ anchored at index i of the
\* lower-case l: the index after the match, or -1
bareMatchEnd(l, i) ==
  IF startsWithAt(l, "cip", i) /\ ~IsWord(charAt(l, i - 1))
  THEN bareAfterCip(l, afterSep(l, i + 3)) ELSE -1

\* the replacement callback (213-220) for the match s[i..e) with digits numRaw
replacement(map, match, base) ==
  IF base \in DOMAIN map /\ map[base].latest # ""
  THEN match \o " (" \o map[base].latest \o ")"
  ELSE match

\* a replace without the g flag: only the first match is replaced
RECURSIVE normalizeFirst(_, _, _, _)
normalizeFirst(map, s, l, i) ==
  IF i >= Len(s) THEN ""
  ELSE IF bareMatchEnd(l, i) = -1 THEN charAt(s, i) \o normalizeFirst(map, s, l, i + 1)
  ELSE replacement(map, slice(s, i, bareMatchEnd(l, i)),
                   "CIP-" \o padStart(slice(s, afterSep(l, i + 3), bareMatchEnd(l, i)), 3))
         \o slice(s, bareMatchEnd(l, i), Len(s))

RECURSIVE normalizeFrom(_, _, _, _)
normalizeFrom(map, s, l, i) ==
  IF i >= Len(s) THEN ""
  ELSE IF bareMatchEnd(l, i) = -1 THEN charAt(s, i) \o normalizeFrom(map, s, l, i + 1)
  ELSE replacement(map, slice(s, i, bareMatchEnd(l, i)),
                   "CIP-" \o padStart(slice(s, afterSep(l, i + 3), bareMatchEnd(l, i)), 3))
         \o normalizeFrom(map, s, l, bareMatchEnd(l, i))

normalizeStandardsInQuery(map, question) ==
  normalizeFrom(map, question, toLowerCase(question), 0)

(***************************************************************************)
(* Cache-aware embedding: embedTexts, embedTextsWithCache (server.js       *)
(* 122-157).  The cache maps hashText(text) to a vector; a cache file may  *)
(* hold any array, the empty one included.                                 *)
(***************************************************************************)
\* the synchronous first half of embedTextsWithCache (128-142): results
\* holds the hits, misses and missIdx (0-based) the texts to request
RECURSIVE lookupFrom(_, _, _, _)
lookupFrom(cache, texts, i, acc) ==
  IF i >= Len(texts) THEN acc
  ELSE LET key == hashText(texts[i + 1])
       IN  IF key \in DOMAIN cache
           THEN lookupFrom(cache, texts, i + 1,
                           [acc EXCEPT !.results = Append(@, cache[key])])
           ELSE lookupFrom(cache, texts, i + 1,
                           [acc EXCEPT !.results = Append(@, <<>>),
                                       !.misses  = Append(@, texts[i + 1]),
                                       !.missIdx = Append(@, i)])
embedLookup(cache, texts) ==
  lookupFrom(cache, texts, 0,
             [texts |-> texts, results |-> <<>>, misses |-> <<>>, missIdx |-> <<>>])

\* embedTexts on a responding service: Promise.all keeps the input order
embedTexts(texts) == [n \in 1..Len(texts) |-> EmbeddingModel(texts[n])]

\* a loop over missIdx that starts the cache afresh at every vector it stores
RECURSIVE fillFresh(_, _, _, _)
fillFresh(pend, newVecs, k, acc) ==
  IF k >= Len(pend.missIdx) THEN acc
  ELSE fillFresh(pend, newVecs, k + 1,
                 [results |-> [acc.results EXCEPT ![pend.missIdx[k + 1] + 1] = newVecs[k + 1]],
                  cache   |-> hashText(pend.texts[pend.missIdx[k + 1] + 1]) :> newVecs[k + 1]])

\* the second half (145-154) once embedTexts(misses) has resolved
RECURSIVE fillFrom(_, _, _, _)
fillFrom(pend, newVecs, k, acc) ==
  IF k >= Len(pend.missIdx) THEN acc
  ELSE LET i   == pend.missIdx[k + 1]
           key == hashText(pend.texts[i + 1])
           vec == newVecs[k + 1]
       IN  fillFrom(pend, newVecs, k + 1,
                    [results |-> [acc.results EXCEPT ![i + 1] = vec],
                     cache   |-> (key :> vec) @@ acc.cache])
\* <<results, cache>> after the loop over missIdx
embedFill(cache, pend) ==
  fillFrom(pend, embedTexts(pend.misses), 0, [results |-> pend.results, cache |-> cache])

NoPend == [texts |-> <<>>, results |-> <<>>, misses |-> <<>>, missIdx |-> <<>>]

(***************************************************************************)
(* embedTextSingle (server.js 97-120) on the response of the service.  A   *)
(* response is [ok, data]; of data the model keeps what the function       *)
(* reads: data?.embedding, Array.isArray(data?.embeddings) and             *)
(* data.embeddings[0], Array.isArray(data) and data[0]?.embedding.  Such a *)
(* value is undefined, a non-empty string, or an array with its items.     *)
(***************************************************************************)
Undefined == [kind |-> "undefined", items |-> <<>>]
AString == [kind |-> "string", items |-> <<>>]
AnArray(items) == [kind |-> "array", items |-> items]
\* an array item that is not a number (null, a string)
NonNumber == -1

Thrown == [threw |-> TRUE, vec |-> <<>>]
Returned(vec) == [threw |-> FALSE, vec |-> vec]

\* an embedTextSingle that yields a default vector where 116-119 throw
vecOrZero(vec) ==
  IF vec.kind # "array" \/ Len(vec.items) = 0 THEN Returned(<<0, 0>>) ELSE Returned(vec.items)

isTruthy(v) == v.kind # "undefined"
\* the || chain of 110-114; "null" when no operand is truthy
pickVec(data) ==
  IF data.embedding.kind = "array" THEN data.embedding
  ELSE IF data.embeddingsIsArray /\ isTruthy(data.embeddings0) THEN data.embeddings0
  ELSE IF data.isArray /\ isTruthy(data.first) THEN data.first
  ELSE [kind |-> "null", items |-> <<>>]
\* the check of 116-119
vecOrThrow(vec) == IF vec.kind # "array" \/ Len(vec.items) = 0 THEN Thrown ELSE Returned(vec.items)
embedTextSingle(resp) == IF ~resp.ok THEN Thrown ELSE vecOrThrow(pickVec(resp.data))

\* responses of the service
NoData == [embedding |-> Undefined, embeddingsIsArray |-> FALSE, embeddings0 |-> Undefined,
           isArray |-> FALSE, first |-> Undefined]
Answer(data) == [ok |-> TRUE, data |-> data]
\* HTTP 500
ErrorStatus == [ok |-> FALSE, data |-> NoData]
\* { embedding: v }, { embeddings: [x] }, [{ embedding: v }]
ShapeEmbedding(v) == Answer([NoData EXCEPT !.embedding = AnArray(v)])
ShapeEmbeddings(x) == Answer([NoData EXCEPT !.embeddingsIsArray = TRUE, !.embeddings0 = x])
ShapeArray(v) == Answer([NoData EXCEPT !.isArray = TRUE, !.first = AnArray(v)])
\* { embedding: [], embeddings: [v] }
ShapeBoth(v) ==
  Answer([NoData EXCEPT !.embedding = AnArray(<<>>), !.embeddingsIsArray = TRUE,
                        !.embeddings0 = AnArray(v)])
\* what the service may answer to a request for text
Responses(text) ==
  { ShapeEmbedding(EmbeddingModel(text)), ShapeEmbeddings(AnArray(EmbeddingModel(text))),
    ShapeArray(EmbeddingModel(text)), ShapeBoth(EmbeddingModel(text)),
    ShapeEmbedding(<<>>), ShapeEmbedding(<<NonNumber, NonNumber>>),
    ShapeEmbeddings(Undefined), ShapeEmbeddings(AString),
    Answer(NoData), ErrorStatus }

\* chunkText in flight: the arguments, the locals clean, i and chunks, the
\* windows of the iterations run so far, and what the call before returned
ChkIdle == [pc |-> "idle", txt |-> "", targetChars |-> 0, overlap |-> 0,
            clean |-> "", i |-> 0, chunks |-> <<>>, windows |-> <<>>,
            run |-> 0, first |-> <<>>]

\* the calls of registerStandardFromFilename made so far, and the latest call
\* of normalizeStandardsInQuery with its result
\* since the last registration; parts is how the question was put together
RegIdle == [names |-> <<>>, parts |-> <<>>, question |-> "", normalized |-> ""]

\* embedTextsWithCache in flight: pend is its lookup, arrived the requests
\* of embedTexts answered so far, in the order of their completion
NoLast == [resp |-> ErrorStatus, result |-> Thrown]
EmbIdle == [pc |-> "idle", again |-> FALSE, pend |-> NoPend, arrived |-> <<>>,
            last |-> NoLast, out |-> <<>>]

\* an embedTexts that returns the vectors in the order the requests complete
promiseAllByArrival(arrived) == [j \in 1..Len(arrived) |-> arrived[j].result.vec]

\* Promise.all of embedTexts (123) once every request has resolved: the
\* value of request k stands at position k
vecOfRequest(arrived, k) ==
  (CHOOSE a \in {arrived[m] : m \in 1..Len(arrived)} : a.k = k).result.vec
promiseAll(arrived) == [j \in 1..Len(arrived) |-> vecOfRequest(arrived, j - 1)]

(***************************************************************************)
(* Corpus entries and corpus management (server.js 162-166, 223-265)       *)
(***************************************************************************)
\* the entry pushed for chunk i of a page of an upload (435-448); the
\* uploadedAt timestamp is written but never read and is left out
uploadEntry(f, page, chunk, i, vec) ==
  [chunk |-> chunk,
   source |-> f.originalname \o " p." \o numToString(page),
   href |-> "/uploads/" \o f.filename \o "#page=" \o numToString(page),
   embedding |-> vec,
   meta |-> [filename |-> f.originalname, storedAs |-> f.filename, origin |-> "upload",
             page |-> page, chunkIndex |-> i,
             standardBase |-> "", standardVersion |-> ""]]

\* the entry pushed for chunk number idx of a public PDF (301-315)
publicEntry(pdfName, std, chunk, idx, vec) ==
  [chunk |-> chunk,
   source |-> pdfName \o " (pseudopages)",
   href |-> "/" \o pdfName,
   embedding |-> vec,
   meta |-> [filename |-> pdfName, storedAs |-> "", origin |-> "public",
             page |-> 0, chunkIndex |-> idx,
             standardBase |-> std.base, standardVersion |-> std.versioned]]

isUploadOf(c, storedAs) == c.meta.origin = "upload" /\ c.meta.storedAs = storedAs
isPublic(c) == c.meta.origin = "public"
isUpload(c) == c.meta.origin = "upload"

\* corpus.splice(i, 1), i 0-based
splice1(corp, i) == SubSeq(corp, 1, i) \o SubSeq(corp, i + 2, Len(corp))

\* a removal loop that walks up from index 0 and so steps over the entry
\* that follows each removed one
RECURSIVE removeUpward(_, _, _, _)
removeUpward(corp, storedAs, j, removed) ==
  IF j >= Len(corp) THEN <<corp, removed>>
  ELSE IF isUploadOf(corp[j + 1], storedAs)
       THEN removeUpward(splice1(corp, j), storedAs, j + 1, removed + 1)
       ELSE removeUpward(corp, storedAs, j + 1, removed)
removeLoopUpward(corp, storedAs, i, removed) == removeUpward(corp, storedAs, 0, removed)

\* removeUploadFromCorpus: the loop from the last index down to 0;
\* <<corpus, removed>>
RECURSIVE removeLoop(_, _, _, _)
removeLoop(corp, storedAs, i, removed) ==
  IF i < 0 THEN <<corp, removed>>
  ELSE IF isUploadOf(corp[i + 1], storedAs)
       THEN removeLoop(splice1(corp, i), storedAs, i - 1, removed + 1)
       ELSE removeLoop(corp, storedAs, i - 1, removed)
removeUploadFromCorpus(corp, storedAs) == removeLoop(corp, storedAs, Len(corp) - 1, 0)

\* a clearing loop without the test of meta.origin
RECURSIVE clearEvery(_, _)
clearEvery(corp, i) == IF i < 0 THEN corp ELSE clearEvery(splice1(corp, i), i - 1)

\* the loop that drops the public part at the head of indexPublicPDFs (271-273)
RECURSIVE clearLoop(_, _)
clearLoop(corp, i) ==
  IF i < 0 THEN corp
  ELSE IF isPublic(corp[i + 1]) THEN clearLoop(splice1(corp, i), i - 1)
       ELSE clearLoop(corp, i - 1)
clearPublic(corp) == clearLoop(corp, Len(corp) - 1)

\* listUploadedFromCorpus: the storedAs keys it lists (entries need a
\* non-empty storedAs and filename)
listUploadedFromCorpus(corp) ==
  {corp[n].meta.storedAs : n \in {m \in 1..Len(corp) :
       isUpload(corp[m]) /\ corp[m].meta.storedAs # "" /\ corp[m].meta.filename # ""}}

\* isSafeStoredName: /^[A-Za-z0-9._-]+$/
isSafeChar(c) == IsWord(c) \/ c = "." \/ c = "-"
isSafeStoredName(name) ==
  Len(name) >= 1 /\ \A i \in 0..(Len(name) - 1) : isSafeChar(charAt(name, i))

(***************************************************************************)
(* Uploaded files: multer storage and page extraction (server.js 334-392)  *)
(***************************************************************************)
\* originalname.replace(/[^\w.\-]+/g, "_")
RECURSIVE sanitizeFrom(_, _)
sanitizeFrom(s, i) ==
  IF i >= Len(s) THEN ""
  ELSE IF isSafeChar(charAt(s, i)) THEN charAt(s, i) \o sanitizeFrom(s, i + 1)
  ELSE IF i > 0 /\ ~isSafeChar(charAt(s, i - 1)) THEN sanitizeFrom(s, i + 1)
  ELSE "_" \o sanitizeFrom(s, i + 1)
\* the stored name multer gives a file at time now
storedName(now, originalname) == numToString(now) \o "-" \o sanitizeFrom(originalname, 0)

\* (originalname.split(".").pop() || "").toLowerCase()
extOf(name) == toLowerCase(slice(name, lastIndexOf(name, ".") + 1, Len(name)))
\* multer's fileFilter
acceptedUpload(name) == extOf(name) \in {"pdf", "txt", "md"}

\* t.replace(/(Purpose\s*:)(\s*)/i, "$1 "): one space after the first header
spaceAfter(t, colon) ==
  slice(t, 0, colon + 1) \o " " \o slice(t, skipSpaces(t, colon + 1), Len(t))
RECURSIVE purposeFixFrom(_, _, _)
purposeFixFrom(t, l, i) ==
  IF i >= Len(t) THEN t
  ELSE IF startsWithAt(l, "purpose", i) /\ charAt(t, skipSpaces(t, i + 7)) = ":"
       THEN spaceAfter(t, skipSpaces(t, i + 7))
       ELSE purposeFixFrom(t, l, i + 1)
purposeFix(t) == purposeFixFrom(t, toLowerCase(t), 0)

\* the [{page, text}] list built from the page texts of a PDF (372-378)
pageRecord(t, n) == IF t = "" THEN <<>> ELSE <<[page |-> n, text |-> purposeFix(t)]>>
RECURSIVE pdfPagesFrom(_, _)
pdfPagesFrom(pages, i) ==
  IF i >= Len(pages) THEN <<>>
  ELSE pageRecord(trim(replaceSpaceRuns(pages[i + 1], " ")), i + 1)
         \o pdfPagesFrom(pages, i + 1)

\* extractUploadedFilePages on a readable file
orFallback(out, text) == IF out # <<>> THEN out ELSE <<[page |-> 1, text |-> text]>>
extractUploadedFilePages(file) ==
  IF file.mimetype = "application/pdf" \/ extOf(file.originalname) = "pdf"
  THEN orFallback(pdfPagesFrom(file.pages, 0), file.text)
  ELSE <<[page |-> 1, text |-> file.text]>>

(***************************************************************************)
(* The environment: files on disk and request bodies                       *)
(***************************************************************************)
\* fs.readdir(PUBLIC_DIR) and the text pdf-parse extracts from each PDF
PublicDir == <<"CIP-005-6.pdf", "app.js", "notes.pdf">>
\* the directory once a further PDF has been put there while the server runs
PublicDirLater == <<"CIP-005-6.pdf", "CIP-005-7.pdf", "app.js", "notes.pdf">>
\* what fs.readdir may resolve to
PublicListings(startup) == IF startup THEN {PublicDir} ELSE {PublicDir, PublicDirLater}
PublicText(name) == IF name = "CIP-005-6.pdf" THEN "af" ELSE "c"

\* files a client may send to POST /api/upload
FileA == [originalname |-> "a.pdf", mimetype |-> "application/pdf",
          pages |-> <<"de", "f">>, text |-> "de f", readable |-> TRUE]
FileB == [originalname |-> "b.txt", mimetype |-> "text/plain",
          pages |-> <<>>, text |-> "e", readable |-> TRUE]
FileC == [originalname |-> "c.pdf", mimetype |-> "application/pdf",
          pages |-> <<>>, text |-> "", readable |-> FALSE]
FileX == [originalname |-> "x.exe", mimetype |-> "application/octet-stream",
          pages |-> <<>>, text |-> "", readable |-> TRUE]
UploadBodies == {<<FileA>>, <<FileB, FileC>>, <<FileX>>}

\* a file on disk: absent, holding the whole JSON text of a cache object, or
\* holding a text cut short
NoFile == [exists |-> FALSE, whole |-> FALSE, data |-> <<>>]
FileOf(data) == [exists |-> TRUE, whole |-> TRUE, data |-> data]
PartialFile == [exists |-> TRUE, whole |-> FALSE, data |-> <<>>]
\* what CACHE_PATH may hold when the process starts
InitialCacheFiles ==
  {NoFile, FileOf(<<[key |-> hashText("e"), value |-> <<>>]>>), PartialFile}

\* last user messages a client may send to POST /api/chat
ChatQuestions == {"cip 05", "what is e"}
\* keys a client may send to DELETE /api/uploads/:storedAs besides stored names
ForeignKeys == {"../server.js", "0-none.txt", ".."}

\* the k of retrieveTopK(normalizedUser, 6) in the chat handler
ChatTopK == 6
\* batchSize of indexPublicPDFs
BatchSize == 32

\* number of requests and signals the server accepts in one run of the model
MaxRequests == 2
\* largest k of a direct retrieveTopK call
MaxK == 2

VARIABLES
  corpus,       \* the global corpus array
  embedCache,   \* the in-memory embedding cache
  standardMap,  \* the standards registry
  cacheFile,    \* the file at CACHE_PATH
  tmpFile,      \* the file at CACHE_PATH + ".tmp"
  fds,          \* where the file each saveEmbedCache call has open now lies
  uploadDir,    \* stored names of the files in UPLOAD_DIR
  listening,    \* app.listen has run
  now,          \* Date.now() of the latest upload request
  nreq,         \* requests accepted so far
  up,           \* the POST /api/upload handler in flight
  del,          \* the DELETE /api/uploads/:storedAs handler in flight
  rx,           \* indexPublicPDFs at startup or under POST /api/reindex
  chat,         \* retrieveTopK under POST /api/chat or called directly
  sig,          \* the SIGINT/SIGTERM handler
  emb,          \* embedTextsWithCache called directly, request by request
  reg,          \* registerStandardFromFilename and normalizeStandardsInQuery called directly
  chk,          \* chunkText called directly, iteration by iteration
  rx2           \* a second POST /api/reindex handler in flight

vars == <<corpus, embedCache, standardMap, cacheFile, tmpFile, fds, uploadDir, listening,
          now, nreq, up, del, rx, chat, sig, emb, reg, chk, rx2>>

(***************************************************************************)
(* saveEmbedCache (server.js 51-60): the serialization is taken at the     *)
(* call; writeFile opens the tmp path, writes and closes; rename follows.  *)
(* A failure of any step is caught and logged.  Every call uses the same   *)
(* tmp path.                                                               *)
(***************************************************************************)
\* JSON.stringify(embedCache): one member per key, each number of the
\* vector in its decimal notation
stringifyVector(vec) == [n \in 1..Len(vec) |-> numToString(vec[n])]
RECURSIVE stringifyMembers(_, _)
stringifyMembers(cache, keys) ==
  IF keys = {} THEN <<>>
  ELSE LET key == CHOOSE x \in keys : TRUE
       IN  <<[key |-> key, value |-> stringifyVector(cache[key])]>>
             \o stringifyMembers(cache, keys \ {key})
stringify(cache) == stringifyMembers(cache, DOMAIN cache)
serialize(cache) == FileOf(stringify(cache))

\* a parser that stops before the last member of the text
RECURSIVE parseAllButLast(_, _, _)
parseAllButLast(members, n, obj) ==
  IF n >= Len(members) THEN obj
  ELSE parseAllButLast(members, n + 1,
                       (members[n].key :> [i \in 1..Len(members[n].value) |->
                                             parseInt(members[n].value[i])]) @@ obj)

\* JSON.parse of the text of a cache file: the members are read in turn, a
\* later member of the same key replacing an earlier one
parseVector(value) == [n \in 1..Len(value) |-> parseInt(value[n])]
RECURSIVE parseMembers(_, _, _)
parseMembers(members, n, obj) ==
  IF n > Len(members) THEN obj
  ELSE parseMembers(members, n + 1, (members[n].key :> parseVector(members[n].value)) @@ obj)
parse(file) == parseMembers(file.data, 1, <<>>)

\* loadEmbedCache: a missing file, or a text JSON.parse rejects, leaves the
\* cache empty
loadEmbedCache(file) == IF file.exists /\ file.whole THEN parse(file) ELSE <<>>

(***************************************************************************)
(* POST /api/upload (server.js 404-463)                                    *)
(***************************************************************************)
UpIdle == [pc |-> "idle", files |-> <<>>, pages |-> <<>>, pend |-> NoPend,
           buf |-> NoFile, res |-> "none"]

\* a loop that pushes the chunks of a page from the last to the first
pageEntriesDownward(f, page, chunks, vecs) ==
  [n \in 1..Len(chunks) |->
     uploadEntry(f, page, chunks[Len(chunks) + 1 - n], Len(chunks) - n,
                 vecs[Len(chunks) + 1 - n])]

\* the entries pushed for one page (434-449)
pageEntries(f, page, chunks, vecs) ==
  [n \in 1..Len(chunks) |-> uploadEntry(f, page, chunks[n], n - 1, vecs[n])]

\* chunkText(text, 1000, 300).filter(Boolean)
nonEmpty(c) == c # ""
pageChunks(text) == SelectSeq(chunkText(text, TargetChars, Overlap), nonEmpty)

\* the loop over pages (430-450) from the head of pages on, up to the first
\* page whose embeddings must be requested from the service; look is the
\* synchronous half of embedTextsWithCache on the chunks of the head page
RECURSIVE uploadPages(_, _, _, _)
RECURSIVE uploadPage(_, _, _, _, _)
uploadPage(corp, cache, f, pages, look) ==
  IF look.misses # <<>>
  THEN [corpus |-> corp, pages |-> pages, pend |-> look]
  ELSE uploadPages(corp \o pageEntries(f, Head(pages).page, look.texts, look.results),
                   cache, f, Tail(pages))
uploadPages(corp, cache, f, pages) ==
  IF pages = <<>> THEN [corpus |-> corp, pages |-> <<>>, pend |-> NoPend]
  ELSE uploadPage(corp, cache, f, pages, embedLookup(cache, pageChunks(Head(pages).text)))

\* the handler after the pages of its current file are exhausted: the next
\* file is read, or the cache is saved
uploadNextFile(u, cache) ==
  IF Len(u.files) > 1
  THEN [u EXCEPT !.pc = "extract", !.files = Tail(@), !.pages = <<>>, !.pend = NoPend]
  ELSE [u EXCEPT !.pc = "open", !.files = <<>>, !.pages = <<>>, !.pend = NoPend,
                 !.buf = serialize(cache)]

\* the handler after uploadPages ran: suspended at an embedding request or
\* moving on to the next file
uploadAfterPages(u, run, cache) ==
  IF run.pages # <<>>
  THEN [u EXCEPT !.pc = "embed", !.pages = run.pages, !.pend = run.pend]
  ELSE uploadNextFile(u, cache)

\* req.files as multer leaves them: accepted files, stored under UPLOAD_DIR
acceptedFile(f) == acceptedUpload(f.originalname)
storedFiles(kept, t) ==
  [n \in 1..Len(kept) |->
     [originalname |-> kept[n].originalname, mimetype |-> kept[n].mimetype,
      filename |-> storedName(t, kept[n].originalname), file |-> kept[n]]]
multerFiles(body, t) == storedFiles(SelectSeq(body, acceptedFile), t)

UploadRequest ==
  /\ listening /\ up.pc = "idle" /\ nreq < MaxRequests
  /\ \E body \in UploadBodies :
       \E files \in {multerFiles(body, now + 1)} :
         /\ uploadDir' = uploadDir \cup {files[n].filename : n \in 1..Len(files)}
         /\ up' = IF files = <<>>
                  THEN [UpIdle EXCEPT !.res = "400"]
                  ELSE [UpIdle EXCEPT !.pc = "extract", !.files = files]
  /\ now' = now + 1
  /\ nreq' = nreq + 1
  /\ UNCHANGED <<corpus, embedCache, standardMap, cacheFile, tmpFile, fds, listening, del, rx,
                 chat, sig, emb, reg, chk, rx2>>

\* extractUploadedFilePages resolves or rejects (424-428)
UploadExtracted ==
  /\ up.pc = "extract"
  /\ IF ~Head(up.files).file.readable
     THEN /\ up' = [UpIdle EXCEPT !.res = "500"]
          /\ UNCHANGED corpus
     ELSE \E run \in {uploadPages(corpus, embedCache, Head(up.files),
                                  extractUploadedFilePages(Head(up.files).file))} :
            /\ corpus' = run.corpus
            /\ up' = uploadAfterPages(up, run, embedCache)
  /\ UNCHANGED <<embedCache, standardMap, cacheFile, tmpFile, fds, uploadDir, listening, now,
                 nreq, del, rx, chat, sig, emb, reg, chk, rx2>>

\* embedTexts(misses) resolves: the page is pushed and the loop goes on
UploadEmbedded ==
  /\ up.pc = "embed"
  /\ \E fill \in {embedFill(embedCache, up.pend)} :
       \E run \in {uploadPages(corpus \o pageEntries(Head(up.files), Head(up.pages).page,
                                                     up.pend.texts, fill.results),
                               fill.cache, Head(up.files), Tail(up.pages))} :
         /\ embedCache' = fill.cache
         /\ corpus' = run.corpus
         /\ up' = uploadAfterPages(up, run, fill.cache)
  /\ UNCHANGED <<standardMap, cacheFile, tmpFile, fds, uploadDir, listening, now, nreq, del, rx, chat, sig, emb, reg, chk, rx2>>

\* an embedding request of the page fails: the catch answers 500 (458-461)
UploadEmbedFailed ==
  /\ up.pc = "embed"
  /\ up' = [UpIdle EXCEPT !.res = "500"]
  /\ UNCHANGED <<corpus, embedCache, standardMap, cacheFile, tmpFile, fds, uploadDir, listening,
                 now, nreq, del, rx, chat, sig, emb, reg, chk, rx2>>

(***************************************************************************)
(* DELETE /api/uploads/:storedAs (server.js 476-503)                       *)
(***************************************************************************)
DelIdle == [pc |-> "idle", key |-> "", removed |-> 0, buf |-> NoFile, res |-> "none"]

\* keys a request may carry
DeleteKeys == uploadDir \cup listUploadedFromCorpus(corpus) \cup ForeignKeys

\* a handler without the guards of 480-489: whatever the key, the chunks stored
\* under it are removed and the handler goes on to fs.unlink
DeleteUnguarded ==
  /\ listening /\ del.pc = "idle" /\ nreq < MaxRequests
  /\ \E key \in DeleteKeys :
       \E r \in {removeUploadFromCorpus(corpus, key)} :
         /\ corpus' = r[1]
         /\ del' = [DelIdle EXCEPT !.pc = "unlink", !.key = key, !.removed = r[2]]
  /\ nreq' = nreq + 1
  /\ UNCHANGED <<embedCache, standardMap, cacheFile, tmpFile, fds, uploadDir, listening, now,
                 up, rx, chat, sig, emb, reg, chk, rx2>>

\* the synchronous head of the handler: validation, lookup and removal
DeleteRequest ==
  /\ listening /\ del.pc = "idle" /\ nreq < MaxRequests
  /\ \E key \in DeleteKeys :
       IF ~isSafeStoredName(key)
       THEN /\ del' = [DelIdle EXCEPT !.key = key, !.res = "400"]
            /\ UNCHANGED corpus
       ELSE IF key \notin listUploadedFromCorpus(corpus)
       THEN /\ del' = [DelIdle EXCEPT !.key = key, !.res = "404"]
            /\ UNCHANGED corpus
       ELSE \E r \in {removeUploadFromCorpus(corpus, key)} :
              /\ corpus' = r[1]
              /\ del' = [DelIdle EXCEPT !.pc = "unlink", !.key = key, !.removed = r[2]]
  /\ nreq' = nreq + 1
  /\ UNCHANGED <<embedCache, standardMap, cacheFile, tmpFile, fds, uploadDir, listening, now,
                 up, rx, chat, sig, emb, reg, chk, rx2>>

\* fs.unlink resolves, or rejects and is ignored; saveEmbedCache is called
\* and serializes the cache
DeleteUnlinked ==
  /\ del.pc = "unlink"
  /\ uploadDir' = uploadDir \ {del.key}
  /\ del' = [del EXCEPT !.pc = "open", !.buf = serialize(embedCache)]
  /\ UNCHANGED <<corpus, embedCache, standardMap, cacheFile, tmpFile, fds, listening, now,
                 nreq, up, rx, chat, sig, emb, reg, chk, rx2>>

(***************************************************************************)
(* indexPublicPDFs (server.js 269-325), run at startup (328-329) and by    *)
(* POST /api/reindex (506-514)                                             *)
(***************************************************************************)
\* before: the registry as the loop iteration at hand found it
RxIdle == [pc |-> "idle", startup |-> FALSE, pdfs |-> <<>>, std |-> NoStd, before |-> <<>>,
           chunks |-> <<>>, i |-> 0, pend |-> NoPend, buf |-> NoFile, res |-> "none"]

\* files.filter(f => f.toLowerCase().endsWith(".pdf"))
isPdfName(f) == endsWith(toLowerCase(f), ".pdf")
pdfsOf(files) == SelectSeq(files, isPdfName)

\* a loop that hands the chunks of a batch to the embedding model as they are
textsAsStored(std, batch) == batch

\* the texts of a batch as handed to the embedding model (294-296)
textsForEmbedding(std, batch) ==
  IF std # NoStd
  THEN [n \in 1..Len(batch) |-> std.base \o " " \o std.versioned \o "\n" \o batch[n]]
  ELSE batch

\* the entries pushed for the batch starting at chunk i (300-316)
batchEntries(pdfName, std, batch, i, vecs) ==
  [n \in 1..Len(batch) |-> publicEntry(pdfName, std, batch[n], i + n - 1, vecs[n])]

\* the loop over batches (290-317) from chunk i on, up to the first batch
\* whose embeddings must be requested from the service
RECURSIVE reindexBatches(_, _, _, _, _, _)
RECURSIVE reindexBatch(_, _, _, _, _, _, _, _)
reindexBatch(corp, cache, pdfName, std, chunks, i, batch, look) ==
  IF look.misses # <<>>
  THEN [corpus |-> corp, i |-> i, pend |-> look, done |-> FALSE]
  ELSE reindexBatches(corp \o batchEntries(pdfName, std, batch, i, look.results),
                      cache, pdfName, std, chunks, i + BatchSize)
reindexBatches(corp, cache, pdfName, std, chunks, i) ==
  IF i >= Len(chunks) THEN [corpus |-> corp, i |-> i, pend |-> NoPend, done |-> TRUE]
  ELSE reindexBatch(corp, cache, pdfName, std, chunks, i, sliceSeq(chunks, i, i + BatchSize),
                    embedLookup(cache, textsForEmbedding(std, sliceSeq(chunks, i, i + BatchSize))))

\* the top of the loop over pdfs (278-284) for the list pdfs, or the return
\* of indexPublicPDFs: <<rx, standardMap, listening>>
reindexNextPdf(r, pdfs, map, cache) ==
  IF pdfs # <<>>
  THEN <<[r EXCEPT !.pc = "read", !.pdfs = pdfs, !.std = parseStandard(Head(pdfs)),
                   !.before = map,
                   !.chunks = <<>>, !.i = 0, !.pend = NoPend, !.buf = NoFile],
         registerStandardFromFilename(map, Head(pdfs)), listening>>
  ELSE IF r.startup
  THEN <<RxIdle, map, TRUE>>
  ELSE <<[RxIdle EXCEPT !.pc = "open", !.buf = serialize(cache)], map, listening>>

\* the handler after reindexBatches ran
reindexAfterBatches(r, run, cache) ==
  IF run.done
  THEN [r EXCEPT !.pc = "open", !.i = run.i, !.pend = NoPend, !.buf = serialize(cache)]
  ELSE [r EXCEPT !.pc = "embed", !.i = run.i, !.pend = run.pend]

\* the catch of POST /api/reindex; at startup the rejection ends the process
reindexFailed(r) ==
  IF r.startup THEN [RxIdle EXCEPT !.pc = "crashed"] ELSE [RxIdle EXCEPT !.res = "500"]

ReindexRequest ==
  /\ listening /\ rx.pc = "idle" /\ nreq < MaxRequests
  /\ corpus' = clearPublic(corpus)
  /\ rx' = [RxIdle EXCEPT !.pc = "readdir"]
  /\ nreq' = nreq + 1
  /\ UNCHANGED <<embedCache, standardMap, cacheFile, tmpFile, fds, uploadDir, listening, now,
                 up, del, chat, sig, emb, reg, chk, rx2>>

\* fs.readdir resolves
ReindexListed ==
  /\ rx.pc = "readdir"
  /\ \E files \in PublicListings(rx.startup) :
       \E nxt \in {reindexNextPdf(rx, pdfsOf(files), standardMap, embedCache)} :
         /\ rx' = nxt[1]
         /\ standardMap' = nxt[2]
         /\ listening' = nxt[3]
  /\ UNCHANGED <<corpus, embedCache, cacheFile, tmpFile, fds, uploadDir, now, nreq, up, del, chat, sig, emb, reg, chk, rx2>>

\* fs.readFile and pdfParse resolve: the PDF is chunked (284-287)
ReindexRead ==
  /\ rx.pc = "read"
  /\ \E chunks \in {chunkText(PublicText(Head(rx.pdfs)), TargetChars, Overlap)} :
       IF chunks = <<>>
       THEN /\ \E nxt \in {reindexNextPdf(rx, Tail(rx.pdfs), standardMap, embedCache)} :
                 /\ rx' = nxt[1]
                 /\ standardMap' = nxt[2]
                 /\ listening' = nxt[3]
            /\ UNCHANGED corpus
       ELSE /\ \E run \in {reindexBatches(corpus, embedCache, Head(rx.pdfs), rx.std,
                                          chunks, 0)} :
                 /\ corpus' = run.corpus
                 /\ rx' = reindexAfterBatches([rx EXCEPT !.chunks = chunks], run, embedCache)
            /\ UNCHANGED <<standardMap, listening>>
  /\ UNCHANGED <<embedCache, cacheFile, tmpFile, fds, uploadDir, now, nreq, up, del, chat, sig, emb, reg, chk, rx2>>

\* fs.readFile or pdfParse rejects
ReindexReadFailed ==
  /\ rx.pc = "read"
  /\ rx' = reindexFailed(rx)
  /\ UNCHANGED <<corpus, embedCache, standardMap, cacheFile, tmpFile, fds, uploadDir, listening,
                 now, nreq, up, del, chat, sig, emb, reg, chk, rx2>>

\* embedTexts(misses) resolves: the batch is pushed and the loop goes on
ReindexEmbedded ==
  /\ rx.pc = "embed"
  /\ \E fill \in {embedFill(embedCache, rx.pend)} :
       \E run \in {reindexBatches(
                     corpus \o batchEntries(Head(rx.pdfs), rx.std,
                                            sliceSeq(rx.chunks, rx.i, rx.i + BatchSize),
                                            rx.i, fill.results),
                     fill.cache, Head(rx.pdfs), rx.std, rx.chunks, rx.i + BatchSize)} :
         /\ embedCache' = fill.cache
         /\ corpus' = run.corpus
         /\ rx' = reindexAfterBatches(rx, run, fill.cache)
  /\ UNCHANGED <<standardMap, cacheFile, tmpFile, fds, uploadDir, listening, now, nreq, up, del, chat, sig, emb, reg, chk, rx2>>

ReindexEmbedFailed ==
  /\ rx.pc = "embed"
  /\ rx' = reindexFailed(rx)
  /\ UNCHANGED <<corpus, embedCache, standardMap, cacheFile, tmpFile, fds, uploadDir, listening,
                 now, nreq, up, del, chat, sig, emb, reg, chk, rx2>>

(***************************************************************************)
(* retrieveTopK (server.js 535-583) and POST /api/chat (605-677)           *)
(***************************************************************************)
ChatIdle == [pc |-> "idle", direct |-> FALSE, q |-> "", k |-> 0, atCall |-> <<>>,
             retrieved |-> <<>>, err |-> FALSE, context |-> "", sources |-> <<>>,
             res |-> "none"]

\* chunks.map(...).join("\n---\n") of buildContextBlock (594-597)
contextBlock(c, i) ==
  "[" \o numToString(i) \o "] Source: " \o c.source \o "\n" \o c.chunk \o "\n"
RECURSIVE joinBlocks(_, _)
joinBlocks(chunks, i) ==
  IF i > Len(chunks) THEN ""
  ELSE (IF i > 1 THEN "\n---\n" ELSE "") \o contextBlock(chunks[i], i)
         \o joinBlocks(chunks, i + 1)
ContextHeader == "CONTEXT BEGIN\n"
ContextFooter == "\nCONTEXT END\n"
\* buildContextBlock (586-600); of the fixed header the last line is kept
buildContextBlock(chunks) == ContextHeader \o joinBlocks(chunks, 1) \o ContextFooter

\* (r.source || "").replace(/\s+\(pseudopages\)$/, "") (665)
PseudoSuffix == "(pseudopages)"
sourceLabelOf(source) ==
  IF endsWith(source, PseudoSuffix) /\ IsSpace(charAt(source, Len(source) - Len(PseudoSuffix) - 1))
  THEN SubSeq(source, 1, skipSpacesBack(source, Len(source) - Len(PseudoSuffix)))
  ELSE source
\* the key of the seen set (667)
sourceKey(label, href) == label \o "|" \o href

\* a loop that pushes a source for every retrieved chunk
RECURSIVE sourcesUnseen(_, _, _, _)
sourcesUnseen(retrieved, n, seen, sources) ==
  IF n > Len(retrieved) THEN sources
  ELSE sourcesUnseen(retrieved, n + 1, seen,
                     Append(sources, [source |-> sourceLabelOf(retrieved[n].source),
                                      href |-> retrieved[n].href]))

\* the loop over retrieved in the finally block (660-671); every corpus
\* entry carries a non-empty href, so the null of 666 does not arise
RECURSIVE sourcesLoop(_, _, _, _)
sourcesLoop(retrieved, n, seen, sources) ==
  IF n > Len(retrieved) THEN sources
  ELSE LET label == sourceLabelOf(retrieved[n].source)
           href  == retrieved[n].href
           key   == sourceKey(label, href)
       IN  IF key \in seen THEN sourcesLoop(retrieved, n + 1, seen, sources)
           ELSE sourcesLoop(retrieved, n + 1, seen \cup {key},
                            Append(sources, [source |-> label, href |-> href]))
dedupSources(retrieved) == sourcesLoop(retrieved, 1, {}, <<>>)

\* a retrieveTopK that requests the query embedding before it looks at the
\* corpus
retrieveCallEmbedFirst(c, q, k) ==
  [c EXCEPT !.pc = "embed", !.q = q, !.k = k, !.atCall = corpus]

\* a retrieveTopK that takes the query embedding from the cache when the
\* hash of the query is a key of it
retrieveCallCached(c, q, k) ==
  IF Len(corpus) > 0 /\ hashText(q) \in DOMAIN embedCache
  THEN [c EXCEPT !.pc = IF c.direct THEN "returned" ELSE "model",
                 !.q = q, !.k = k, !.atCall = corpus,
                 !.retrieved = rankCorpus(corpus, q, embedCache[hashText(q)], k)]
  ELSE [c EXCEPT !.pc = "embed", !.q = q, !.k = k, !.atCall = corpus]

\* retrieveTopK up to its first suspension (536-540): an empty corpus
\* returns [] at once, otherwise the query embedding is requested.
\* atCall records the corpus the call found.
retrieveCall(c, q, k) ==
  IF Len(corpus) = 0
  THEN [c EXCEPT !.pc = IF c.direct THEN "returned" ELSE "model",
                 !.q = q, !.k = k, !.atCall = corpus, !.retrieved = <<>>,
                 !.context = IF c.direct THEN "" ELSE buildContextBlock(<<>>)]
  ELSE [c EXCEPT !.pc = "embed", !.q = q, !.k = k, !.atCall = corpus]

\* the handler up to the await of retrieveTopK (606-616)
ChatRequest ==
  /\ listening /\ chat.pc = "idle" /\ nreq < MaxRequests
  /\ \E lastUser \in ChatQuestions :
       chat' = retrieveCall(ChatIdle, normalizeStandardsInQuery(standardMap, lastUser),
                            ChatTopK)
  /\ nreq' = nreq + 1
  /\ UNCHANGED <<corpus, embedCache, standardMap, cacheFile, tmpFile, fds, uploadDir, listening,
                 now, up, del, rx, sig, emb, reg, chk, rx2>>

\* embedTexts([q]) resolves, retrieveTopK returns the ranked chunks and the
\* context message is built (616-621)
ChatRetrieved ==
  /\ chat.pc = "embed" /\ ~chat.direct
  /\ \E retrieved \in {rankCorpus(corpus, chat.q, embedTexts(<<chat.q>>)[1], chat.k)} :
       chat' = [chat EXCEPT !.pc = "model", !.retrieved = retrieved,
                            !.context = buildContextBlock(retrieved)]
  /\ UNCHANGED <<corpus, embedCache, standardMap, cacheFile, tmpFile, fds, uploadDir, listening,
                 now, nreq, up, del, rx, sig, emb, reg, chk, rx2>>

\* a handler without the try/catch: the rejection ends the request
retrieveUncaught(c) == [ChatIdle EXCEPT !.err = TRUE, !.res = "500"]

\* the catch around retrieveTopK (617-619): the error is logged, retrieved
\* stays [] and the handler goes on to build the context
retrieveCatch(c) ==
  [c EXCEPT !.pc = "model", !.retrieved = <<>>, !.err = TRUE,
            !.context = buildContextBlock(<<>>)]

\* embedTexts([q]) rejects
ChatRetrieveFailed ==
  /\ chat.pc = "embed" /\ ~chat.direct
  /\ chat' = retrieveCatch(chat)
  /\ UNCHANGED <<corpus, embedCache, standardMap, cacheFile, tmpFile, fds, uploadDir, listening,
                 now, nreq, up, del, rx, sig, emb, reg, chk, rx2>>

\* the upstream answers 502 (648-652), or the model call answers, the stream
\* ends and the sources are written (654-675)
ChatUpstream ==
  /\ chat.pc = "model"
  /\ \/ chat' = [ChatIdle EXCEPT !.res = "502"]
     \/ chat' = [ChatIdle EXCEPT !.res = "ok", !.retrieved = chat.retrieved,
                                  !.context = chat.context,
                                  !.sources = dedupSources(chat.retrieved)]
  /\ UNCHANGED <<corpus, embedCache, standardMap, cacheFile, tmpFile, fds, uploadDir, listening,
                 now, nreq, up, del, rx, sig, emb, reg, chk, rx2>>

(***************************************************************************)
(* The steps of saveEmbedCache (server.js 51-60) for every caller, and the *)
(* SIGINT/SIGTERM handler (687-692)                                        *)
(***************************************************************************)
Writers == {"up", "del", "rx", "sig"}
\* the calls of saveEmbedCache that may have a file open
Holders == Writers \cup {"rx2"}
NoFds == [w \in Holders |-> "none"]
SigIdle == [pc |-> "idle", buf |-> NoFile]

\* the length of a JSON text, counted in keys and numbers
RECURSIVE jsonLengthFrom(_, _)
jsonLengthFrom(members, n) ==
  IF n > Len(members) THEN 0
  ELSE 1 + Len(members[n].value) + jsonLengthFrom(members, n + 1)
jsonLength(members) == jsonLengthFrom(members, 1)

\* the disk as the calls in flight see it: d = [tmp, cache, fds], where
\* fds[w] tells whether the file w has open lies at the tmp path ("tmp"),
\* at CACHE_PATH ("cache") or at no path ("gone")
\* fs.writeFile opens the tmp path with flag "w": the file is created, or
\* truncated where it is
openTmp(d, w) == [d EXCEPT !.tmp = PartialFile, !.fds[w] = "tmp"]
\* the bytes of buf written from offset 0 over a file: a longer text left
\* there by another call keeps its tail
landed(file, buf) ==
  IF file.whole /\ jsonLength(file.data) > jsonLength(buf.data) THEN PartialFile ELSE buf
\* the write and close of fs.writeFile: the bytes go to the file w has open,
\* wherever a rename has moved it
writeData(d, w, buf) ==
  IF d.fds[w] = "tmp" THEN [d EXCEPT !.tmp = landed(@, buf), !.fds[w] = "none"]
  ELSE IF d.fds[w] = "cache" THEN [d EXCEPT !.cache = landed(@, buf), !.fds[w] = "none"]
  ELSE [d EXCEPT !.fds[w] = "none"]
\* the write fails before any byte is written
writeFails(d, w) == [d EXCEPT !.fds[w] = "none"]
\* fs.rename(tmp, CACHE_PATH): the file at the tmp path replaces the one at
\* CACHE_PATH; without a file at the tmp path the call fails
moved(place) == IF place = "tmp" THEN "cache" ELSE IF place = "cache" THEN "gone" ELSE place
renameTmp(d) ==
  IF d.tmp.exists
  THEN [tmp |-> NoFile, cache |-> d.tmp, fds |-> [w \in Holders |-> moved(d.fds[w])]]
  ELSE d

Disk == [tmp |-> tmpFile, cache |-> cacheFile, fds |-> fds]
DiskBecomes(d) == tmpFile' = d.tmp /\ cacheFile' = d.cache /\ fds' = d.fds

\* the handler whose call of saveEmbedCache is w
saver(w) == IF w = "up" THEN up ELSE IF w = "del" THEN del ELSE IF w = "rx" THEN rx ELSE sig

\* saveEmbedCache of w goes on to its next await
SaveGoes(w, pc) ==
  /\ up' = IF w = "up" THEN [up EXCEPT !.pc = pc] ELSE up
  /\ del' = IF w = "del" THEN [del EXCEPT !.pc = pc] ELSE del
  /\ rx' = IF w = "rx" THEN [rx EXCEPT !.pc = pc] ELSE rx
  /\ sig' = IF w = "sig" THEN [sig EXCEPT !.pc = pc] ELSE sig
  /\ UNCHANGED <<standardMap, listening, chat>>

\* process.exit(0) (690): every handler in flight ends with the process
Exit ==
  /\ up' = [UpIdle EXCEPT !.pc = "exited"]
  /\ del' = [DelIdle EXCEPT !.pc = "exited"]
  /\ rx' = [RxIdle EXCEPT !.pc = "exited"]
  /\ chat' = [ChatIdle EXCEPT !.pc = "exited"]
  /\ sig' = [SigIdle EXCEPT !.pc = "exited"]
  /\ listening' = FALSE
  /\ UNCHANGED standardMap

\* a saveEmbedCache without its catch (58): the error of the failing step
\* reaches the catch of the caller (458-461, 500-502, 511-513), at startup
\* and in the signal handler it ends the process
SaveThrows(w) ==
  IF w = "up"
  THEN /\ up' = [UpIdle EXCEPT !.res = "500"]
       /\ UNCHANGED <<del, rx, sig, standardMap, listening, chat>>
  ELSE IF w = "del"
  THEN /\ del' = [del EXCEPT !.pc = "idle", !.buf = NoFile, !.res = "500"]
       /\ UNCHANGED <<up, rx, sig, standardMap, listening, chat>>
  ELSE IF w = "rx"
  THEN /\ rx' = reindexFailed(rx)
       /\ UNCHANGED <<up, del, sig, standardMap, listening, chat>>
  ELSE Exit

\* saveEmbedCache of w returns, after the rename or from its catch, and its
\* caller goes on: the upload and the removal answer (456-457, 499), the
\* index loop turns to the next PDF (321) or POST /api/reindex answers
\* (509-510), the signal handler exits (690)
SaveReturns(w) ==
  IF w = "up"
  THEN /\ up' = [UpIdle EXCEPT !.res = "ok"]
       /\ UNCHANGED <<del, rx, sig, standardMap, listening, chat>>
  ELSE IF w = "del"
  THEN /\ del' = [del EXCEPT !.pc = "idle", !.buf = NoFile, !.res = "ok"]
       /\ UNCHANGED <<up, rx, sig, standardMap, listening, chat>>
  ELSE IF w = "rx"
  THEN /\ IF rx.pdfs # <<>>
          THEN \E nxt \in {reindexNextPdf(rx, Tail(rx.pdfs), standardMap, embedCache)} :
                 /\ rx' = nxt[1]
                 /\ standardMap' = nxt[2]
                 /\ listening' = nxt[3]
          ELSE /\ rx' = [RxIdle EXCEPT !.res = "ok"]
               /\ UNCHANGED <<standardMap, listening>>
       /\ UNCHANGED <<up, del, sig, chat>>
  ELSE Exit

\* fs.writeFile opens the tmp path, or fails to
SaveOpen ==
  /\ \E w \in Writers :
       /\ saver(w).pc = "open"
       /\ \/ DiskBecomes(openTmp(Disk, w)) /\ SaveGoes(w, "write")
          \/ UNCHANGED <<tmpFile, cacheFile, fds>> /\ SaveReturns(w)
  /\ UNCHANGED <<corpus, embedCache, uploadDir, now, nreq, emb, reg, chk, rx2>>

\* fs.writeFile writes the serialization and closes, or fails
SaveWrite ==
  /\ \E w \in Writers :
       /\ saver(w).pc = "write"
       /\ \/ DiskBecomes(writeData(Disk, w, saver(w).buf)) /\ SaveGoes(w, "rename")
          \/ DiskBecomes(writeFails(Disk, w)) /\ SaveReturns(w)
  /\ UNCHANGED <<corpus, embedCache, uploadDir, now, nreq, emb, reg, chk, rx2>>

\* fs.rename completes or fails; either way saveEmbedCache returns
SaveRename ==
  /\ \E w \in Writers :
       /\ saver(w).pc = "rename"
       /\ DiskBecomes(renameTmp(Disk))
       /\ SaveReturns(w)
  /\ UNCHANGED <<corpus, embedCache, uploadDir, now, nreq, emb, reg, chk, rx2>>

\* SIGINT or SIGTERM arrives once the handlers are installed (687-689):
\* saveEmbedCache is called and serializes the cache
SignalReceived ==
  /\ listening /\ sig.pc = "idle" /\ nreq < MaxRequests
  /\ sig' = [pc |-> "open", buf |-> serialize(embedCache)]
  /\ nreq' = nreq + 1
  /\ UNCHANGED <<corpus, embedCache, standardMap, cacheFile, tmpFile, fds, uploadDir,
                 listening, now, up, del, rx, chat, emb, reg, chk, rx2>>

Init ==
  /\ cacheFile \in InitialCacheFiles
  /\ embedCache = loadEmbedCache(cacheFile)
  /\ corpus = <<>>
  /\ standardMap = <<>>
  /\ tmpFile = NoFile
  /\ fds = NoFds
  /\ sig = SigIdle
  /\ emb = EmbIdle
  /\ reg = RegIdle
  /\ chk = ChkIdle
  /\ uploadDir = {}
  /\ listening = FALSE
  /\ now = 0
  /\ nreq = 0
  /\ up = UpIdle
  /\ del = DelIdle
  /\ rx = [RxIdle EXCEPT !.pc = "readdir", !.startup = TRUE]
  /\ rx2 = RxIdle
  /\ chat = ChatIdle

Next ==
  \/ UploadRequest
  \/ UploadExtracted
  \/ UploadEmbedded
  \/ UploadEmbedFailed
  \/ DeleteRequest
  \/ DeleteUnlinked
  \/ ReindexRequest
  \/ ReindexListed
  \/ ReindexRead
  \/ ReindexReadFailed
  \/ ReindexEmbedded
  \/ ReindexEmbedFailed
  \/ ChatRequest
  \/ ChatRetrieved
  \/ ChatRetrieveFailed
  \/ ChatUpstream
  \/ SaveOpen
  \/ SaveWrite
  \/ SaveRename
  \/ SignalReceived

Spec == Init /\ [][Next]_vars

(***************************************************************************)
(* POST /api/reindex (server.js 506-514) with two requests in flight: the  *)
(* handlers run the same code, rx holds the one that takes the next step   *)
(* and rx2 the other one.                                                  *)
(***************************************************************************)
\* the event loop turns from one handler to the other
ReindexSwap ==
  /\ listening
  /\ rx # rx2
  /\ rx.pc # "idle" \/ rx2.pc # "idle"
  /\ rx' = rx2
  /\ rx2' = rx
  /\ fds' = [fds EXCEPT !["rx"] = fds["rx2"], !["rx2"] = fds["rx"]]
  /\ UNCHANGED <<corpus, embedCache, standardMap, cacheFile, tmpFile, uploadDir, listening,
                 now, nreq, up, del, chat, sig, emb, reg, chk>>

NextOverlap ==
  \/ ReindexRequest
  \/ ReindexListed
  \/ ReindexRead
  \/ ReindexReadFailed
  \/ ReindexEmbedded
  \/ ReindexEmbedFailed
  \/ SaveOpen
  \/ SaveWrite
  \/ SaveRename
  \/ ReindexSwap

SpecOverlap == Init /\ [][NextOverlap]_vars

(***************************************************************************)
(* Handlers run to completion on a responding service.  st is the pair     *)
(* [corpus, cache].                                                        *)
(***************************************************************************)
\* the page loop of POST /api/upload (430-450) with every embedding request
\* answered
RECURSIVE ingestRun(_, _, _)
RECURSIVE ingestResume(_, _, _)
ingestResume(run, f, fill) ==
  ingestRun(uploadPages(run.corpus \o pageEntries(f, Head(run.pages).page,
                                                   run.pend.texts, fill.results),
                        fill.cache, f, Tail(run.pages)),
            fill.cache, f)
ingestRun(run, cache, f) ==
  IF run.pages = <<>> THEN [corpus |-> run.corpus, cache |-> cache]
  ELSE ingestResume(run, f, embedFill(cache, run.pend))
ingestFile(st, f) ==
  ingestRun(uploadPages(st.corpus, st.cache, f, extractUploadedFilePages(f.file)),
            st.cache, f)

\* the batch loop of indexPublicPDFs (290-317) with every embedding request
\* answered
RECURSIVE indexRun(_, _, _, _, _)
RECURSIVE indexResume(_, _, _, _, _)
indexResume(run, pdfName, std, chunks, fill) ==
  indexRun(reindexBatches(run.corpus \o batchEntries(pdfName, std,
                                                     sliceSeq(chunks, run.i, run.i + BatchSize),
                                                     run.i, fill.results),
                          fill.cache, pdfName, std, chunks, run.i + BatchSize),
           fill.cache, pdfName, std, chunks)
indexRun(run, cache, pdfName, std, chunks) ==
  IF run.done THEN [corpus |-> run.corpus, cache |-> cache]
  ELSE indexResume(run, pdfName, std, chunks, embedFill(cache, run.pend))
indexPdf(st, pdfName, std, chunks) ==
  IF chunks = <<>> THEN st
  ELSE indexRun(reindexBatches(st.corpus, st.cache, pdfName, std, chunks, 0),
                st.cache, pdfName, std, chunks)
RECURSIVE indexPdfs(_, _)
indexPdfs(st, pdfs) ==
  IF pdfs = <<>> THEN st
  ELSE indexPdfs(indexPdf(st, Head(pdfs), parseStandard(Head(pdfs)),
                          chunkText(PublicText(Head(pdfs)), TargetChars, Overlap)),
                 Tail(pdfs))
\* indexPublicPDFs from its first statement to its return
indexPublicPDFs(st) ==
  indexPdfs([corpus |-> clearPublic(st.corpus), cache |-> st.cache], pdfsOf(PublicDir))

\* the registry after the registrations of one run of indexPublicPDFs
RECURSIVE registerAll(_, _)
registerAll(map, pdfs) ==
  IF pdfs = <<>> THEN map
  ELSE registerAll(registerStandardFromFilename(map, Head(pdfs)), Tail(pdfs))

(***************************************************************************)
(* retrieveTopK called directly, with any k, on corpora the server builds: *)
(* the startup index followed by a short history of completed requests.    *)
(***************************************************************************)
FileD == [originalname |-> "d.txt", mimetype |-> "text/plain",
          pages |-> <<>>, text |-> "CIP 05.", readable |-> TRUE]
FileE == [originalname |-> "e.md", mimetype |-> "text/markdown",
          pages |-> <<>>, text |-> "CIP 05", readable |-> TRUE]
FileF == [originalname |-> "f.txt", mimetype |-> "text/plain",
          pages |-> <<>>, text |-> "Purpose: integrity CIP05", readable |-> TRUE]

\* a history step: a completed POST /api/upload of a body, a completed
\* POST /api/reindex ("index"), or a POST /api/reindex suspended at readdir
\* ("clear")
Uploaded(body) == [kind |-> "upload", body |-> body]
Reindexed == [kind |-> "index", body |-> <<>>]
Cleared == [kind |-> "clear", body |-> <<>>]
RetrieveHistories ==
  { <<>>, <<Cleared>>,
    <<Uploaded(<<FileA>>)>>, <<Uploaded(<<FileA>>), Cleared>>,
    <<Uploaded(<<FileA>>), Reindexed>>,
    <<Uploaded(<<FileB, FileC>>)>>, <<Uploaded(<<FileB, FileC>>), Reindexed>>,
    <<Uploaded(<<FileD, FileE>>)>>, <<Uploaded(<<FileF>>)>> }
RetrieveQueries == {"cip 05", "cip 05 d.txt", "a.pdf", "e", ""}

\* the files of a body ingested in turn; an unreadable file ends the request
RECURSIVE ingestFiles(_, _)
ingestFiles(st, files) ==
  IF files = <<>> THEN st
  ELSE IF ~Head(files).file.readable THEN st
  ELSE ingestFiles(ingestFile(st, Head(files)), Tail(files))

\* h: [st, now, dir, pc]
historyStep(h, op) ==
  IF op.kind = "index"
  THEN [h EXCEPT !.st = indexPublicPDFs(h.st)]
  ELSE IF op.kind = "clear"
  THEN [h EXCEPT !.st = [corpus |-> clearPublic(h.st.corpus), cache |-> h.st.cache],
                 !.pc = "readdir"]
  ELSE [h EXCEPT !.st = ingestFiles(h.st, multerFiles(op.body, h.now + 1)),
                 !.now = h.now + 1,
                 !.dir = h.dir \cup {storedName(h.now + 1, op.body[n].originalname) :
                                       n \in {m \in 1..Len(op.body) : acceptedFile(op.body[m])}}]
RECURSIVE historyFrom(_, _)
historyFrom(h, ops) ==
  IF ops = <<>> THEN h ELSE historyFrom(historyStep(h, Head(ops)), Tail(ops))
\* the server after startup on the cache file and the requests of ops
afterHistory(file, ops) ==
  historyFrom([st |-> indexPublicPDFs([corpus |-> <<>>, cache |-> loadEmbedCache(file)]),
               now |-> 0, dir |-> {}, pc |-> "idle"], ops)

InitRetrieve ==
  \E file \in InitialCacheFiles, ops \in RetrieveHistories :
    \E h \in {afterHistory(file, ops)} :
      /\ cacheFile = file
      /\ embedCache = h.st.cache
      /\ corpus = h.st.corpus
      /\ standardMap = registerAll(<<>>, pdfsOf(PublicDir))
      /\ tmpFile = NoFile
      /\ fds = NoFds
      /\ sig = SigIdle
      /\ emb = EmbIdle
      /\ reg = RegIdle
      /\ chk = ChkIdle
      /\ uploadDir = h.dir
      /\ listening = TRUE
      /\ now = h.now
      /\ nreq = Len(ops)
      /\ up = UpIdle
      /\ del = DelIdle
      /\ rx = [RxIdle EXCEPT !.pc = h.pc]
      /\ rx2 = RxIdle
      /\ chat = ChatIdle

\* retrieveTopK(q, k) is called
RetrieveCall ==
  /\ chat.pc = "idle"
  /\ \E q \in RetrieveQueries, k \in 0..MaxK :
       chat' = retrieveCall([ChatIdle EXCEPT !.direct = TRUE], q, k)
  /\ UNCHANGED <<corpus, embedCache, standardMap, cacheFile, tmpFile, fds, uploadDir, listening,
                 now, nreq, up, del, rx, sig, emb, reg, chk, rx2>>

\* embedTexts([q]) resolves and retrieveTopK returns
RetrieveReturned ==
  /\ chat.pc = "embed" /\ chat.direct
  /\ chat' = [chat EXCEPT !.pc = "returned",
                          !.retrieved = rankCorpus(corpus, chat.q, embedTexts(<<chat.q>>)[1],
                                                   chat.k)]
  /\ UNCHANGED <<corpus, embedCache, standardMap, cacheFile, tmpFile, fds, uploadDir, listening,
                 now, nreq, up, del, rx, sig, emb, reg, chk, rx2>>

\* embedTexts([q]) rejects and so does retrieveTopK
RetrieveThrew ==
  /\ chat.pc = "embed" /\ chat.direct
  /\ chat' = [chat EXCEPT !.pc = "threw", !.err = TRUE]
  /\ UNCHANGED <<corpus, embedCache, standardMap, cacheFile, tmpFile, fds, uploadDir, listening,
                 now, nreq, up, del, rx, sig, emb, reg, chk, rx2>>

NextRetrieve ==
  \/ RetrieveCall
  \/ RetrieveReturned
  \/ RetrieveThrew

SpecRetrieve == InitRetrieve /\ [][NextRetrieve]_vars

(***************************************************************************)
(* embedTextsWithCache called directly on any short sequence of texts,     *)
(* twice in a row, with the service answering request by request in any    *)
(* order and with any response.                                            *)
(***************************************************************************)
EmbedTexts == {"a", "bb", "ccc"}
\* longest sequence of texts of one call
MaxTexts == 3
EmbedInputs == UNION {[1..n -> EmbedTexts] : n \in 0..MaxTexts}
\* the cache the first call finds
EmbedCaches == {<<>>, hashText("bb") :> EmbeddingModel("bb")}

\* embedTextsWithCache(texts) up to its await (128-145): without misses it
\* returns at once
embedCallOn(cache, look, again) ==
  IF look.misses = <<>>
  THEN [EmbIdle EXCEPT !.pc = "returned", !.again = again, !.pend = look,
                       !.out = look.results]
  ELSE [EmbIdle EXCEPT !.pc = "await", !.again = again, !.pend = look]

\* the requests of embedTexts(misses) not answered yet, as positions in misses
pendingRequests(e) ==
  {k \in 0..(Len(e.pend.misses) - 1) : \A m \in 1..Len(e.arrived) : e.arrived[m].k # k}

InitEmbed ==
  /\ embedCache \in EmbedCaches
  /\ emb = EmbIdle
  /\ reg = RegIdle
  /\ chk = ChkIdle
  /\ cacheFile = NoFile
  /\ corpus = <<>>
  /\ standardMap = <<>>
  /\ tmpFile = NoFile
  /\ fds = NoFds
  /\ sig = SigIdle
  /\ uploadDir = {}
  /\ listening = FALSE
  /\ now = 0
  /\ nreq = 0
  /\ up = UpIdle
  /\ del = DelIdle
  /\ rx = RxIdle
  /\ rx2 = RxIdle
  /\ chat = ChatIdle

\* embedTextsWithCache(texts) is called, a first or a second time
EmbedCall ==
  /\ emb.pc = "idle" \/ (emb.pc \in {"returned", "threw"} /\ ~emb.again)
  /\ \E texts \in EmbedInputs :
       emb' = embedCallOn(embedCache, embedLookup(embedCache, texts), emb.pc # "idle")
  /\ UNCHANGED <<corpus, embedCache, standardMap, cacheFile, tmpFile, fds, uploadDir,
                 listening, now, nreq, up, del, rx, chat, sig, reg, chk, rx2>>

\* a request of embedTexts resolves while others are pending
EmbedAnswered ==
  /\ emb.pc = "await"
  /\ \E k \in pendingRequests(emb) : \E resp \in Responses(emb.pend.misses[k + 1]) :
       \E result \in {embedTextSingle(resp)} :
         /\ ~result.threw
         /\ pendingRequests(emb) # {k}
         /\ emb' = [emb EXCEPT !.arrived = Append(@, [k |-> k, result |-> result]),
                               !.last = [resp |-> resp, result |-> result]]
  /\ UNCHANGED <<corpus, embedCache, standardMap, cacheFile, tmpFile, fds, uploadDir,
                 listening, now, nreq, up, del, rx, chat, sig, reg, chk, rx2>>

\* the last request resolves: Promise.all resolves, the loop over missIdx
\* stores the vectors and embedTextsWithCache returns (145-156)
EmbedResolved ==
  /\ emb.pc = "await"
  /\ \E k \in pendingRequests(emb) : \E resp \in Responses(emb.pend.misses[k + 1]) :
       \E result \in {embedTextSingle(resp)} :
         /\ ~result.threw
         /\ pendingRequests(emb) = {k}
         /\ \E fill \in {fillFrom(emb.pend,
                                   promiseAll(Append(emb.arrived, [k |-> k, result |-> result])),
                                   0, [results |-> emb.pend.results, cache |-> embedCache])} :
              /\ embedCache' = fill.cache
              /\ emb' = [emb EXCEPT !.pc = "returned",
                                    !.arrived = Append(@, [k |-> k, result |-> result]),
                                    !.last = [resp |-> resp, result |-> result],
                                    !.out = fill.results]
  /\ UNCHANGED <<corpus, standardMap, cacheFile, tmpFile, fds, uploadDir,
                 listening, now, nreq, up, del, rx, chat, sig, reg, chk, rx2>>

\* a request rejects: Promise.all rejects and so does embedTextsWithCache
EmbedRejected ==
  /\ emb.pc = "await"
  /\ \E k \in pendingRequests(emb) : \E resp \in Responses(emb.pend.misses[k + 1]) :
       \E result \in {embedTextSingle(resp)} :
         /\ result.threw
         /\ emb' = [emb EXCEPT !.pc = "threw",
                               !.last = [resp |-> resp, result |-> result]]
  /\ UNCHANGED <<corpus, embedCache, standardMap, cacheFile, tmpFile, fds, uploadDir,
                 listening, now, nreq, up, del, rx, chat, sig, reg, chk, rx2>>

NextEmbed ==
  \/ EmbedCall
  \/ EmbedAnswered
  \/ EmbedResolved
  \/ EmbedRejected

SpecEmbed == InitEmbed /\ [][NextEmbed]_vars

(***************************************************************************)
(* chunkText called directly, twice on the same arguments, iteration by    *)
(* iteration                                                               *)
(***************************************************************************)
ChunkTexts == {"", " \n", "abcdef", "a  b\nc ", "abc. defg", "ab; c"}
ChunkTargets == {-1, 0, 1, 3, 5}
ChunkOverlaps == {0, 1, 3, 6}
\* calls on a text with a header token far enough into the first window
HeaderCalls == {<<"abcdefghijPurpose: k l", 18, 0>>, <<"abcdefghijPurpose: k l", 18, 6>>}
\* <<txt, targetChars, overlap>> of the calls
ChunkCalls == (ChunkTexts \X ChunkTargets \X ChunkOverlaps) \cup HeaderCalls
\* corpus and cache the second call may find
ChunkStates ==
  {[corpus |-> <<>>, cache |-> <<>>],
   [corpus |-> <<publicEntry("notes.pdf", NoStd, "c", 0, EmbeddingModel("c"))>>,
    cache |-> hashText("c") :> EmbeddingModel("c")]}

\* chunkText(txt, targetChars, overlap) up to the loop (71-73)
chunkCall(txt, targetChars, overlap, run, first) ==
  [pc |-> "loop", txt |-> txt, targetChars |-> targetChars, overlap |-> overlap,
   clean |-> trim(replaceSpaceRuns(txt, " ")), i |-> 0, chunks |-> <<>>, windows |-> <<>>,
   run |-> run, first |-> first]

InitChunk ==
  /\ \E call \in ChunkCalls : chk = chunkCall(call[1], call[2], call[3], 1, <<>>)
  /\ reg = RegIdle
  /\ emb = EmbIdle
  /\ standardMap = <<>>
  /\ embedCache = <<>>
  /\ cacheFile = NoFile
  /\ corpus = <<>>
  /\ tmpFile = NoFile
  /\ fds = NoFds
  /\ sig = SigIdle
  /\ uploadDir = {}
  /\ listening = FALSE
  /\ now = 0
  /\ nreq = 0
  /\ up = UpIdle
  /\ del = DelIdle
  /\ rx = RxIdle
  /\ rx2 = RxIdle
  /\ chat = ChatIdle

\* one iteration of the while loop (74-90)
ChunkIterate ==
  /\ chk.pc = "loop" /\ chk.i < Len(chk.clean)
  /\ \E chunk \in {chunkAt(chk.clean, chk.i, chk.targetChars)} :
       chk' = [chk EXCEPT !.i = @ + advance(chunk, chk.overlap),
                          !.chunks = pushed(@, chunk),
                          !.windows = Append(@, [start |-> chk.i, chunk |-> chunk])]
  /\ UNCHANGED <<corpus, embedCache, standardMap, cacheFile, tmpFile, fds, uploadDir,
                 listening, now, nreq, up, del, rx, chat, sig, emb, reg, rx2>>

\* the loop condition fails and chunkText returns chunks (91)
ChunkReturn ==
  /\ chk.pc = "loop" /\ ~(chk.i < Len(chk.clean))
  /\ chk' = [chk EXCEPT !.pc = "done"]
  /\ UNCHANGED <<corpus, embedCache, standardMap, cacheFile, tmpFile, fds, uploadDir,
                 listening, now, nreq, up, del, rx, chat, sig, emb, reg, rx2>>

\* a second call whose chunks array is the one of the first call
ChunkAgainShared ==
  /\ chk.pc = "done" /\ chk.run = 1
  /\ \E st \in ChunkStates :
       /\ corpus' = st.corpus
       /\ embedCache' = st.cache
  /\ chk' = [chunkCall(chk.txt, chk.targetChars, chk.overlap, 2, chk.chunks)
               EXCEPT !.chunks = chk.chunks]
  /\ UNCHANGED <<standardMap, cacheFile, tmpFile, fds, uploadDir,
                 listening, now, nreq, up, del, rx, chat, sig, emb, reg, rx2>>

\* chunkText is called again on the same arguments, in another state of the
\* corpus and the cache
ChunkAgain ==
  /\ chk.pc = "done" /\ chk.run = 1
  /\ \E st \in ChunkStates :
       /\ corpus' = st.corpus
       /\ embedCache' = st.cache
  /\ chk' = chunkCall(chk.txt, chk.targetChars, chk.overlap, 2, chk.chunks)
  /\ UNCHANGED <<standardMap, cacheFile, tmpFile, fds, uploadDir,
                 listening, now, nreq, up, del, rx, chat, sig, emb, reg, rx2>>

NextChunk ==
  \/ ChunkIterate
  \/ ChunkReturn
  \/ ChunkAgain

SpecChunk == InitChunk /\ [][NextChunk]_vars
\* the loop is the only code running: an enabled step is taken
SpecChunkFair == SpecChunk /\ WF_vars(NextChunk)

(***************************************************************************)
(* The standards registry called directly: file names registered in any    *)
(* order, questions normalized against the registry they find              *)
(***************************************************************************)
RegistryNames ==
  {"CIP-005-3.pdf", "CIP-005-6.pdf", "cip 5-06.pdf", "CIP-007-10.pdf", "CIP0072.pdf", "a.pdf"}
\* longest sequence of registrations
MaxRegistered == 3
\* a question is put together from words: a bare mention of a family id
\* with the punctuation that follows it, a mention that carries a version, or
\* another word
Bare(text, base, punct) == [text |-> text, base |-> base, bare |-> TRUE, punct |-> punct]
Versioned(text, base) == [text |-> text, base |-> base, bare |-> FALSE, punct |-> ""]
Plain(text) == [text |-> text, base |-> "", bare |-> FALSE, punct |-> ""]
QuestionWords ==
  {Bare("CIP-005", "CIP-005", ""), Bare("cip 7", "CIP-007", "?"), Bare("Cip002", "CIP-002", ","),
   Versioned("CIP-005-3", "CIP-005"), Versioned("CIP 007 10.", "CIP-007"),
   Plain("CIP-0051"), Plain("and")}
\* most words of a question
MaxWords == 2
RegistryQuestions == UNION {[1..n -> QuestionWords] : n \in 1..MaxWords}
\* the words of a question separated by single spaces
RECURSIVE joinWords(_, _)
joinWords(parts, n) ==
  IF n > Len(parts) THEN ""
  ELSE IF n = Len(parts) THEN parts[n].text \o parts[n].punct
  ELSE parts[n].text \o parts[n].punct \o " " \o joinWords(parts, n + 1)

InitRegistry ==
  /\ standardMap = <<>>
  /\ reg = RegIdle
  /\ chk = ChkIdle
  /\ emb = EmbIdle
  /\ embedCache = <<>>
  /\ cacheFile = NoFile
  /\ corpus = <<>>
  /\ tmpFile = NoFile
  /\ fds = NoFds
  /\ sig = SigIdle
  /\ uploadDir = {}
  /\ listening = FALSE
  /\ now = 0
  /\ nreq = 0
  /\ up = UpIdle
  /\ del = DelIdle
  /\ rx = RxIdle
  /\ rx2 = RxIdle
  /\ chat = ChatIdle

\* registerStandardFromFilename(pdfName)
RegistryRegister ==
  /\ Len(reg.names) < MaxRegistered
  /\ \E pdfName \in RegistryNames :
       /\ standardMap' = registerStandardFromFilename(standardMap, pdfName)
       /\ reg' = [RegIdle EXCEPT !.names = Append(reg.names, pdfName)]
  /\ UNCHANGED <<corpus, embedCache, cacheFile, tmpFile, fds, uploadDir, listening,
                 now, nreq, up, del, rx, chat, sig, emb, chk, rx2>>

\* normalizeStandardsInQuery(question), once against each registry
RegistryNormalize ==
  /\ reg.parts = <<>>
  /\ \E parts \in RegistryQuestions : \E question \in {joinWords(parts, 1)} :
       reg' = [reg EXCEPT !.parts = parts,
                          !.question = question,
                          !.normalized = normalizeStandardsInQuery(standardMap, question)]
  /\ UNCHANGED <<corpus, embedCache, standardMap, cacheFile, tmpFile, fds, uploadDir,
                 listening, now, nreq, up, del, rx, chat, sig, emb, chk, rx2>>

NextRegistry ==
  \/ RegistryRegister
  \/ RegistryNormalize

SpecRegistry == InitRegistry /\ [][NextRegistry]_vars

(***************************************************************************)
(* Properties                                                              *)
(***************************************************************************)
\* the entries of corp stored under key, as <<page, chunkIndex, chunk>>
RECURSIVE keyedFrom(_, _, _)
keyedFrom(corp, key, n) ==
  IF n > Len(corp) THEN <<>>
  ELSE (IF corp[n].meta.storedAs = key
        THEN <<(<<corp[n].meta.page, corp[n].meta.chunkIndex, corp[n].chunk>>)>>
        ELSE <<>>) \o keyedFrom(corp, key, n + 1)
keyedChunks(corp, key) == keyedFrom(corp, key, 1)

\* every chunk of every page of the stored file f, in document order
numbered(page, chunks) == [i \in 1..Len(chunks) |-> <<page, i - 1, chunks[i]>>]
RECURSIVE chunksOfPages(_)
chunksOfPages(pages) ==
  IF pages = <<>> THEN <<>>
  ELSE numbered(Head(pages).page, pageChunks(Head(pages).text)) \o chunksOfPages(Tail(pages))
documentChunks(f) ==
  IF f.file.readable THEN chunksOfPages(extractUploadedFilePages(f.file)) ELSE <<>>

allOrNothing(corp, f) == keyedChunks(corp, f.filename) \in {<<>>, documentChunks(f)}

\* the handler leaves the file at the head of up.files: it turns to the
\* next file, saves the cache, or answers an error
ingestionEnds ==
  /\ up.pc \in {"extract", "embed"}
  /\ up'.pc \notin {"extract", "embed"} \/ up'.files # up.files

\* C1: when the ingestion of an uploaded document ends, with success or
\* with a failure at the embedding of any page, the corpus holds every
\* chunk of every page of the document or no chunk of it.
C1_AllOrNothing == [][ingestionEnds => allOrNothing(corpus', Head(up.files))]_vars

\* the entries of corp not stored under key, in their order
RECURSIVE othersFrom(_, _, _)
othersFrom(corp, key, n) ==
  IF n > Len(corp) THEN <<>>
  ELSE (IF corp[n].meta.storedAs = key THEN <<>> ELSE <<corp[n]>>)
         \o othersFrom(corp, key, n + 1)
countKey(corp, key) == Cardinality({n \in 1..Len(corp) : corp[n].meta.storedAs = key})
removalCorrect(corp, key, r) ==
  /\ countKey(r[1], key) = 0
  /\ r[2] = countKey(corp, key)
  /\ r[1] = othersFrom(corp, key, 1)

\* C2: on every corpus the server reaches and for every key a request may
\* carry, removeUploadFromCorpus leaves no chunk stored under the key,
\* returns the number of chunks that were stored under it, and keeps every
\* other chunk in its relative order.
C2_RemoveUpload ==
  \A key \in DeleteKeys : removalCorrect(corpus, key, removeUploadFromCorpus(corpus, key))

\* a DELETE has just removed the several chunks of a document from a corpus
\* that holds other chunks
C2_Witness ==
  /\ del.pc = "unlink" /\ del.removed >= 2
  /\ countKey(corpus, del.key) = 0 /\ Len(corpus) > 0

\* C3: once DELETE /api/uploads/k has answered with success, no chunk
\* stored under k is in the corpus, also when the upload of k was still
\* awaiting the embeddings of later pages when the removal ran.
C3_RemovedStaysRemoved == del.res = "ok" => countKey(corpus, del.key) = 0

\* C4: the list retrieveTopK returns is the ranking of the corpus as it was
\* when retrieveTopK was called, also when an upload, a removal or a
\* rebuild changed the corpus while the query embedding was awaited.
C4_SnapshotAtCall ==
  (chat.pc = "model" /\ ~chat.err) =>
    chat.retrieved = rankCorpus(chat.atCall, chat.q, embedTexts(<<chat.q>>)[1], chat.k)

\* the public part of a corpus
publicOf(corp) == SelectSeq(corp, isPublic)
\* the sets a complete run builds from the listings a rebuild may find
CompleteSets ==
  {indexPdfs([corpus |-> <<>>, cache |-> <<>>], pdfsOf(files)).corpus :
     files \in PublicListings(FALSE)}

\* C5: across every step of a rebuild under POST /api/reindex (each await
\* it suspends at, and its failure at a read or an embedding call) the
\* public part of the corpus stays as it was or becomes the complete newly
\* built set; so another request sees the complete old set or the complete
\* new one.
C5_RebuildAtomic ==
  [][(rx' # rx /\ ~rx.startup) => publicOf(corpus') \in {publicOf(corpus)} \cup CompleteSets]_vars

uploadsOf(corp) == SelectSeq(corp, isUpload)

\* C6: no step of indexPublicPDFs, at startup or under POST /api/reindex,
\* whether it goes on, returns or fails, changes the uploaded chunks of the
\* corpus or their relative order.
C6_RebuildKeepsUploads == [][rx' # rx => uploadsOf(corpus') = uploadsOf(corpus)]_vars

\* a POST /api/reindex has completed on a corpus with uploaded chunks,
\* which now precede the rebuilt public chunks
C6_Witness ==
  /\ rx.res = "ok" /\ Len(corpus) > 1
  /\ isUpload(corpus[1]) /\ isPublic(corpus[Len(corpus)])

isInCorpus(c) == \E m \in 1..Len(corpus) : corpus[m] = c

\* C7: a direct call retrieveTopK(q, k), k >= 0, returns at most k entries,
\* each one an element of the corpus.
C7_AtMostKFromCorpus ==
  chat.pc = "returned" =>
    /\ Len(chat.retrieved) <= chat.k
    /\ \A n \in 1..Len(chat.retrieved) : isInCorpus(chat.retrieved[n])

\* retrieveTopK has returned exactly k >= 1 entries of a corpus that holds
\* more than k
C7_Witness ==
  /\ chat.pc = "returned" /\ chat.k >= 1
  /\ Len(chat.retrieved) = chat.k /\ Len(corpus) > chat.k

\* cosine * 0.7 + min(keywordScore + boosts, 6) * 0.3 of chunk c for query q
scoreOfChunk(q, qvec, c) ==
  blended(cosineSim(qvec, c.embedding), entryKw(queryKeys(q), normalize(q), c))
scoresOf(q, qvec, cs) == [n \in 1..Len(cs) |-> scoreOfChunk(q, qvec, cs[n])]
nonIncreasing(scores) ==
  \A i \in 1..Len(scores) : \A j \in 1..Len(scores) :
    i < j => scoreDiff(scores[i], scores[j]) >= 0

\* C8: the sequence retrieveTopK returns is in non-increasing order of the
\* blended score of its chunks, on the ranked path and on the
\* exact-identifier fallback.
C8_SortedByScore ==
  chat.pc = "returned" =>
    nonIncreasing(scoresOf(chat.q, embedTexts(<<chat.q>>)[1], chat.retrieved))

\* C9: retrieveTopK called on an empty corpus returns the empty sequence
\* for every query; it requests no embedding and so raises no error when
\* the embedding service is unavailable.
C9_EmptyCorpusEmptyResult ==
  (chat.pc # "idle" /\ chat.atCall = <<>>) =>
    (chat.pc = "returned" /\ chat.retrieved = <<>> /\ ~chat.err)

\* retrieveTopK has returned from a call on an empty corpus with a
\* non-empty query
C9_Witness ==
  /\ chat.pc = "returned" /\ chat.direct
  /\ chat.atCall = <<>> /\ corpus = <<>> /\ chat.q # ""

\* C10: when the embedding request for the query fails under POST
\* /api/chat, the handler does not fail the request: retrieved is the
\* empty list, the corpus, the cache and the cache file are unchanged, and
\* the handler is at the model call.
C10_RetrieveFailureDegrades ==
  [][(chat.pc = "embed" /\ ~chat.direct /\ chat'.err) =>
       /\ chat'.pc = "model" /\ chat'.retrieved = <<>> /\ chat'.res = "none"
       /\ corpus' = corpus /\ embedCache' = embedCache /\ cacheFile' = cacheFile]_vars

\* the chat handler is at the model call after a failed retrieval on a
\* non-empty corpus
C10_Witness ==
  /\ chat.pc = "model" /\ chat.err /\ ~chat.direct
  /\ chat.retrieved = <<>> /\ Len(chat.atCall) > 0 /\ Len(corpus) > 0

\* the (source, href) pairs of the chunks of cs, in order
pairsOf(cs) == [n \in 1..Len(cs) |-> <<cs[n].source, cs[n].href>>]
\* the pairs of ps that occur at no earlier position, in order
RECURSIVE firstOccurrences(_, _)
firstOccurrences(ps, n) ==
  IF n > Len(ps) THEN <<>>
  ELSE (IF \E m \in 1..(n - 1) : ps[m] = ps[n] THEN <<>> ELSE <<ps[n]>>)
         \o firstOccurrences(ps, n + 1)
citationOf(pair) == [source |-> sourceLabelOf(pair[1]), href |-> pair[2]]
citationsOf(ps) == [n \in 1..Len(ps) |-> citationOf(ps[n])]
\* block n of the context names chunk n of cs
contextKeepsAll(context, cs) ==
  \A n \in 1..Len(cs) : includes(context, contextBlock(cs[n], n))

C12_CacheFileWhole == [][cacheFile' # cacheFile => cacheFile'.whole]_vars

\* the lookup of embedTextsWithCache for the one text T
lookupOf(cache, T) == embedLookup(cache, <<T>>)
\* the vectors the service has returned so far are the only ones stored
\* beside those loaded at startup
storedOrLoaded(key, vec) == vec = EmbeddingModel(key[2]) \/ vec = <<>>

\* C13: at every state, the lookup of every text whose key the cache holds
\* is a hit that returns exactly the vector stored under the key (the one
\* the service returned for the text, or the one loaded at startup), and
\* loading a file that holds the serialization of the cache, or the
\* serialization a saveEmbedCache call in flight has taken, reproduces the
\* mapping that was serialized.
C13_CacheRoundTrip ==
  /\ \A key \in DOMAIN embedCache :
       /\ lookupOf(embedCache, key[2]).misses = <<>>
       /\ lookupOf(embedCache, key[2]).results = <<embedCache[key]>>
       /\ storedOrLoaded(key, embedCache[key])
  /\ loadEmbedCache(serialize(embedCache)) = embedCache
  /\ \A w \in Writers :
       saver(w).pc \in {"open", "write", "rename"} =>
         stringify(loadEmbedCache(saver(w).buf)) = saver(w).buf.data

\* an upload has answered after its saveEmbedCache call completed, and the
\* file at CACHE_PATH loads to the cache in memory, which holds several
\* vectors returned by the service
C13_Witness ==
  /\ up.res = "ok" /\ cacheFile.whole
  /\ loadEmbedCache(cacheFile) = embedCache
  /\ \E k1 \in DOMAIN embedCache : \E k2 \in DOMAIN embedCache :
       k1 # k2 /\ embedCache[k1] # <<>> /\ embedCache[k2] # <<>>

\* the non-empty arrays a response carries under embedding, embeddings[0]
\* or [0].embedding
nonEmptyArray(v) == v.kind = "array" /\ Len(v.items) > 0
carriedUnder(data) ==
  {v \in {data.embedding} : nonEmptyArray(v)}
    \cup {v \in {data.embeddings0} : data.embeddingsIsArray /\ nonEmptyArray(v)}
    \cup {v \in {data.first} : data.isArray /\ nonEmptyArray(v)}
carriedVectors(resp) == IF resp.ok THEN {v.items : v \in carriedUnder(resp.data)} ELSE {}
\* vec is a non-empty vector some successful answer to a request for the
\* text of key carries
fromTheService(key, vec) ==
  Len(vec) > 0 /\ \E resp \in Responses(key[2]) : vec \in carriedVectors(resp)

\* C14: a step of embedTextsWithCache changes the cache only when every
\* request of its batch has resolved; a batch with a failed request adds
\* and changes no entry, and neither do the requests that resolved before
\* the failure.  The entries cached before the batch keep their vectors,
\* and every vector the batch stores is a non-empty vector that a
\* successful answer of the service carries for that text.
C14_NoPartialBatch ==
  [][/\ (emb.pc # "await" \/ emb'.pc # "returned") => embedCache' = embedCache
     /\ \A key \in DOMAIN embedCache :
          key \in DOMAIN embedCache' /\ embedCache'[key] = embedCache[key]
     /\ \A key \in DOMAIN embedCache' \ DOMAIN embedCache :
          fromTheService(key, embedCache'[key])]_vars

\* a second batch with a hit and several misses has failed after one of its
\* requests had resolved, and the cache holds what the first batch stored
C14_Witness ==
  /\ emb.pc = "threw" /\ emb.again
  /\ Len(emb.arrived) >= 1 /\ Len(emb.pend.misses) >= 2
  /\ Len(emb.pend.texts) > Len(emb.pend.misses)
  /\ Cardinality(DOMAIN embedCache) >= 2

\* C15: once the cache is loaded, no step of an upload, a removal, a
\* rebuild, a chat or a save takes a key out of the in-memory cache, and
\* no step of DELETE /api/uploads/:storedAs changes the cache at all.
C15_AppendOnly ==
  [][/\ \A key \in DOMAIN embedCache : key \in DOMAIN embedCache'
     /\ del' # del => embedCache' = embedCache]_vars

\* a removal has answered: the chunks of the removed document are out of
\* the corpus and their vectors are still in the cache
C15_Witness ==
  /\ del.res = "ok" /\ del.removed >= 2 /\ countKey(corpus, del.key) = 0
  /\ hashText("de") \in DOMAIN embedCache
  /\ \A n \in 1..Len(corpus) : corpus[n].chunk # "de"

\* C16: no step of retrieveTopK changes the cache or the corpus; every call
\* on a non-empty corpus suspends at a request to the embedding service,
\* also when the hash of the query is a key of the cache; and what it
\* returns is ranked with the vector the service answers, not with a
\* cached one.
C16_QueriesBypassCache ==
  [][chat' # chat =>
       /\ embedCache' = embedCache /\ corpus' = corpus
       /\ (chat.pc = "idle" /\ Len(corpus) > 0) => chat'.pc = "embed"
       /\ chat'.pc = "returned" =>
            chat'.retrieved = rankCorpus(corpus, chat'.q, EmbeddingModel(chat'.q), chat'.k)]_vars

\* retrieveTopK has returned chunks for a query whose hash is a key of the
\* cache, under a vector other than the one the service answers
C16_Witness ==
  /\ chat.pc = "returned" /\ chat.retrieved # <<>>
  /\ hashText(chat.q) \in DOMAIN embedCache
  /\ embedCache[hashText(chat.q)] # EmbeddingModel(chat.q)

\* the passages whose embeddings a suspended handler has requested from
\* the service: the missed chunks of the page of an upload, and of the
\* batch of a public PDF
requestedByUpload == {up.pend.texts[up.pend.missIdx[j] + 1] : j \in 1..Len(up.pend.missIdx)}
requestedByIndex ==
  {sliceSeq(rx.chunks, rx.i, rx.i + BatchSize)[rx.pend.missIdx[j] + 1] :
     j \in 1..Len(rx.pend.missIdx)}
\* the chunks of corp that come from a document other than name
passagesOfOthers(corp, name) ==
  {corp[n].chunk : n \in {m \in 1..Len(corp) : corp[m].meta.filename # name}}

\* C17: a handler never requests from the service the embedding of a
\* passage that the corpus already holds as an embedded chunk of another
\* document, seeded or uploaded, standard or not: such a passage is
\* resolved from the cache.
C17_SharedPassages ==
  /\ up.pc = "embed" =>
       requestedByUpload \cap passagesOfOthers(corpus, Head(up.files).originalname) = {}
  /\ rx.pc = "embed" =>
       requestedByIndex \cap passagesOfOthers(corpus, Head(rx.pdfs)) = {}

\* ---- C18 ----
\* w's call of saveEmbedCache fails in this step: the open, the write or the
\* rename does not complete
saveFailsFor(w) ==
  /\ saver(w).pc \in {"open", "write", "rename"}
  /\ saver(w)' # saver(w)
  /\ w # "sig" => sig'.pc # "exited"
  /\ \/ saver(w).pc = "open" /\ saver(w)'.pc # "write"
     \/ saver(w).pc = "write" /\ saver(w)'.pc # "rename"
     \/ saver(w).pc = "rename" /\ ~tmpFile.exists
\* the caller of saveEmbedCache goes on as after a save that worked
callerGoesOn(w) ==
  IF w = "up" THEN up'.pc = "idle" /\ up'.res = "ok"
  ELSE IF w = "del" THEN del'.pc = "idle" /\ del'.res = "ok"
  ELSE IF w = "rx" THEN rx'.pc # "crashed" /\ rx'.res # "500"
  ELSE sig'.pc = "exited"
\* C18: cache I/O failures are never fatal. Loading a missing or unparseable
\* cache file leaves the in-memory cache empty and startup goes on to index
\* the public PDFs; a saveEmbedCache whose open, write or rename fails raises
\* no error to its caller and leaves the in-memory cache and the corpus as
\* they were.
C18_CacheIONeverFatal ==
  /\ (~(cacheFile.exists /\ cacheFile.whole) =>
        embedCache = <<>> /\ rx.pc = "readdir" /\ rx.startup)
  /\ [][\A w \in Writers :
          saveFailsFor(w) =>
            embedCache' = embedCache /\ corpus' = corpus /\ callerGoesOn(w)]_vars
\* the server started without a cache file and no save ever got to open the
\* tmp path, yet startup went through and an upload was embedded and
\* answered ok
C18_Witness ==
  /\ listening /\ ~cacheFile.exists /\ ~tmpFile.exists
  /\ up.pc = "idle" /\ up.res = "ok"
  /\ embedCache # <<>>
  /\ \E i \in 1..Len(corpus) : corpus[i].meta.origin = "upload"

\* ---- C19 ----
\* the vectors embedTextSingle may return for a text
vectorsOfText(text) ==
  {embedTextSingle(resp).vec : resp \in {r \in Responses(text) : ~embedTextSingle(r).threw}}
\* the positions of the input the lookup missed, in input order
missPositions(pend) == {i \in 1..Len(pend.texts) : pend.results[i] = <<>>}
\* the number of misses among the first i texts
missesUpTo(pend, i) == Cardinality({j \in missPositions(pend) : j <= i})
\* what the service answered to the request made for input position i
answeredFor(e, i) ==
  (CHOOSE a \in {e.arrived[m] : m \in 1..Len(e.arrived)} :
     a.k = missesUpTo(e.pend, i) - 1).result.vec
\* C19: embedding resolution is order-preserving with one vector per input.
\* Whatever the mix of cache hits and misses and whatever the order in which
\* the concurrent requests complete, embedTextsWithCache returns as many
\* vectors as it was given texts, and the i-th vector is the vector of the
\* i-th text: the cached vector on a hit, the vector the service answered to
\* the request made for that text on a miss.
C19_OrderPreserving ==
  emb.pc = "returned" =>
    /\ Len(emb.out) = Len(emb.pend.texts)
    /\ \A i \in 1..Len(emb.pend.texts) :
         IF i \in missPositions(emb.pend)
         THEN /\ emb.out[i] = answeredFor(emb, i)
              /\ emb.out[i] \in vectorsOfText(emb.pend.texts[i])
         ELSE /\ emb.out[i] = emb.pend.results[i]
              /\ emb.out[i] = embedCache[hashText(emb.pend.texts[i])]
\* a call with a hit between two misses of different texts returned, the
\* request of the later text having completed first
C19_Witness ==
  /\ emb.pc = "returned"
  /\ Len(emb.pend.texts) = 3
  /\ missPositions(emb.pend) = {1, 3}
  /\ emb.pend.texts[1] # emb.pend.texts[3]
  /\ emb.arrived[1].k = 1 /\ emb.arrived[2].k = 0
  /\ emb.out[1] = EmbeddingModel(emb.pend.texts[1])
  /\ emb.out[3] = EmbeddingModel(emb.pend.texts[3])

\* ---- C20 ----
isNumeric(vec) == \A i \in 1..Len(vec) : vec[i] # NonNumber
\* the non-empty numeric vectors a response carries under one of the three
\* shapes
numericCarried(resp) == {vec \in carriedVectors(resp) : isNumeric(vec)}
\* C20: embedTextSingle returns v exactly when the response carries v as a
\* non-empty numeric vector under embedding, embeddings[0] or [0].embedding;
\* on a non-success status, or when no shape carries such a vector, it fails.
\* Stated of the request answered last.
C20_ReturnsExactlyCarried ==
  IF emb.last.result.threw
  THEN numericCarried(emb.last.resp) = {}
  ELSE emb.last.result.vec \in numericCarried(emb.last.resp)

\* ---- C21 ----
\* the registrations made so far that named a standard of family base
registeredFor(base) ==
  {n \in 1..Len(reg.names) : parseStandard(reg.names[n]).base = base}
versionsRegistered(base) == {versionOf(reg.names[n]) : n \in registeredFor(base)}
idsRegistered(base) == {parseStandard(reg.names[n]).versioned : n \in registeredFor(base)}
maxOf(S) == CHOOSE x \in S : \A y \in S : y <= x
\* C21: after any sequence of registerStandardFromFilename calls the registry
\* holds exactly the families registered, and for each of them latestVersion
\* is the greatest version number ever registered, latest is the family id
\* followed by that number and is one of versions, and versions holds every
\* registered versioned id exactly once.
C21_LatestIsMaximum ==
  /\ DOMAIN standardMap = {parseStandard(reg.names[n]).base : n \in 1..Len(reg.names)} \ {""}
  /\ \A base \in DOMAIN standardMap :
       LET e == standardMap[base]
       IN  /\ e.latestVersion = maxOf(versionsRegistered(base))
           /\ e.latest = base \o "-" \o numToString(e.latestVersion)
           /\ \E n \in 1..Len(e.versions) : e.versions[n] = e.latest
           /\ {e.versions[n] : n \in 1..Len(e.versions)} = idsRegistered(base)
           /\ \A n1, n2 \in 1..Len(e.versions) : e.versions[n1] = e.versions[n2] => n1 = n2
\* CIP-005-6.pdf was registered, then CIP-005-3.pdf, then version 6 again
\* under another spelling: the latest version stays 6 and versions holds two ids
C21_Witness ==
  /\ reg.names = <<"CIP-005-6.pdf", "CIP-005-3.pdf", "cip 5-06.pdf">>
  /\ standardMap["CIP-005"].latestVersion = 6
  /\ standardMap["CIP-005"].versions = <<"CIP-005-6", "CIP-005-3">>

\* ---- C22 ----
\* a word of the question as the normalized question is to show it
normalizedWord(map, part) ==
  IF part.bare /\ part.base \in DOMAIN map
  THEN part.text \o " (" \o map[part.base].latest \o ")" \o part.punct
  ELSE part.text \o part.punct
RECURSIVE joinNormalized(_, _, _)
joinNormalized(map, parts, n) ==
  IF n > Len(parts) THEN ""
  ELSE IF n = Len(parts) THEN normalizedWord(map, parts[n])
  ELSE normalizedWord(map, parts[n]) \o " " \o joinNormalized(map, parts, n + 1)
\* C22: normalizeStandardsInQuery appends " (latest id)" after every bare
\* mention of a registered family id and keeps the rest of the question as
\* it was written: mentions of families not registered, mentions that carry
\* a version and all other words are unchanged.
\* The example of the claim is part of the statement.
C22_BareMentionsNormalized ==
  /\ reg.parts # <<>> => reg.normalized = joinNormalized(standardMap, reg.parts, 1)
  /\ normalizeStandardsInQuery(
       registerStandardFromFilename(registerStandardFromFilename(<<>>, "CIP-005-3.pdf"),
                                    "CIP-005-6.pdf"), "CIP-005") = "CIP-005 (CIP-005-6)"
\* with CIP-005-3 and CIP-005-6 registered, a question of two bare mentions
\* of CIP-005 was normalized at both
C22_Witness ==
  /\ reg.names = <<"CIP-005-3.pdf", "CIP-005-6.pdf">>
  /\ reg.question = "CIP-005 CIP-005"
  /\ reg.normalized = "CIP-005 (CIP-005-6) CIP-005 (CIP-005-6)"

\* ---- C23 ----
holdsChunkOf(corp, filename) == \E n \in 1..Len(corp) : corp[n].meta.filename = filename
holdsChunkStoredAs(corp, storedAs) == \E n \in 1..Len(corp) : corp[n].meta.storedAs = storedAs
\* C23: a document whose read step fails leaves no trace in the running
\* server.  When fs.readFile or pdfParse rejects for a public PDF under
\* POST /api/reindex, the registry is the one the loop iteration of that PDF
\* found and the corpus holds no chunk of the PDF; when
\* extractUploadedFilePages rejects for an uploaded file, the registry is
\* unchanged and the corpus holds no chunk stored under the file's name.
C23_ReadFailureLeavesNoTrace ==
  [][/\ (~rx.startup /\ rx.pc = "read" /\ rx'.pc = "idle" /\ rx'.res = "500") =>
          /\ standardMap' = rx.before
          /\ ~holdsChunkOf(corpus', Head(rx.pdfs))
     /\ (up.pc = "extract" /\ up'.pc = "idle" /\ up'.res = "500") =>
          /\ standardMap' = standardMap
          /\ ~holdsChunkStoredAs(corpus', Head(up.files).filename)]_vars

\* ---- C24 ----
\* the embedding request of the page at hand fails in this step: the upload
\* handler leaves its await without the page having been pushed
pageEmbeddingFails ==
  /\ up.pc = "embed" /\ up' # up
  /\ corpus' = corpus /\ embedCache' = embedCache
  /\ sig'.pc # "exited"
\* C24: when the embedding step of one page of an upload fails, only that
\* page is given up: with pages left in the document the handler goes on to
\* them (it awaits the next embedding, or has pushed them from the cache and
\* turns to the next file or to the save) and does not answer with an error.
C24_LaterPagesAttempted ==
  [][(pageEmbeddingFails /\ Len(up.pages) > 1) =>
       /\ up'.pc \in {"embed", "extract", "open"}
       /\ up'.res # "500"]_vars

\* ---- C25 ----
\* key names an uploaded document of the corpus
namesUpload(corp, key) ==
  \E n \in 1..Len(corp) : corp[n].meta.origin = "upload" /\ corp[n].meta.storedAs = key
\* path.join(UPLOAD_DIR, name) is a direct child of UPLOAD_DIR
isDirectChild(name) ==
  /\ name \notin {"", ".", ".."}
  /\ ~includes(name, "/")
  /\ ~includes(name, "\\")
\* C25: a removal request whose key fails the filename-safe pattern or names
\* no uploaded document of the corpus is answered with an error (400 or 404)
\* in the step that receives it and changes neither the corpus nor the
\* upload directory nor the cache files; a handler that gets to fs.unlink
\* holds a key that passed the pattern and whose path is a direct child of
\* the upload directory, and a step that takes a file out of the upload
\* directory is that handler's unlink and takes out the file of its key only.
C25_InvalidRemovalHarmless ==
  [][/\ (del.pc = "idle" /\ del' # del /\ del'.pc # "exited"
           /\ (~isSafeStoredName(del'.key) \/ ~namesUpload(corpus, del'.key))) =>
          /\ del'.pc = "idle" /\ del'.res \in {"400", "404"}
          /\ corpus' = corpus /\ uploadDir' = uploadDir
          /\ cacheFile' = cacheFile /\ tmpFile' = tmpFile /\ fds' = fds
     /\ del'.pc = "unlink" => isSafeStoredName(del'.key) /\ isDirectChild(del'.key)
     /\ uploadDir \ uploadDir' # {} =>
          /\ del.pc = "unlink" /\ del'.pc # "unlink"
          /\ uploadDir \ uploadDir' = {del.key} /\ isDirectChild(del.key)]_vars
\* a key that passes the pattern and names a file of the upload directory,
\* but no document of the corpus, was answered 404 and the file is still there
C25_Witness ==
  /\ del.pc = "idle" /\ del.res = "404"
  /\ isSafeStoredName(del.key)
  /\ del.key \in uploadDir
  /\ ~namesUpload(corpus, del.key)

\* ---- C26 ----
\* C26: chunkText terminates for every text, targetChars and overlap, an
\* overlap of at least targetChars and a targetChars of 0 or less included:
\* every iteration of its loop moves the window start on by at least one
\* character, and every call that entered the loop returns.
C26_ChunkTextTerminates ==
  /\ [][(chk.pc = "loop" /\ chk'.pc = "loop" /\ chk'.run = chk.run) =>
          chk'.i >= chk.i + 1]_vars
  /\ (chk.pc = "loop") ~> (chk.pc = "done")
\* a call whose overlap is not below targetChars has returned after one
\* iteration for every character of the text
C26_Witness ==
  /\ chk.pc = "done"
  /\ chk.overlap >= chk.targetChars
  /\ Len(chk.clean) >= 6
  /\ Len(chk.windows) = Len(chk.clean)

\* ---- C27 ----
\* C27: of any two consecutive windows of chunkText the later one starts
\* exactly overlap characters before the end of the earlier one.  Stated for
\* calls with 0 <= overlap < targetChars.
C27_NextWindowAtOverlap ==
  (0 <= chk.overlap /\ chk.overlap < chk.targetChars) =>
    \A n \in 1..(Len(chk.windows) - 1) :
      chk.windows[n + 1].start =
        chk.windows[n].start + Len(chk.windows[n].chunk) - chk.overlap

\* ---- C28 ----
nonBlank(w) == trim(w.chunk) # ""
\* the windows whose chunk was pushed
emitted(windows) == SelectSeq(windows, nonBlank)
\* chunk is the part of clean that starts at start
isPartAt(clean, chunk, start) ==
  /\ start >= 0 /\ start + Len(chunk) <= Len(clean)
  /\ chunk = SubSeq(clean, start + 1, start + Len(chunk))
\* the chunks of chk are the chunks of the emitted windows, each non-empty
\* and not only whitespace, each a part of the normalized text, in
\* increasing order of their start
chunksWellFormed ==
  LET ws == emitted(chk.windows)
  IN  /\ chk.chunks = [n \in 1..Len(ws) |-> ws[n].chunk]
      /\ \A n \in 1..Len(ws) :
           /\ ws[n].chunk # "" /\ trim(ws[n].chunk) # ""
           /\ isPartAt(trim(replaceSpaceRuns(chk.txt, " ")), ws[n].chunk, ws[n].start)
      /\ \A n \in 1..(Len(ws) - 1) : ws[n].start < ws[n + 1].start
atMostTarget == \A n \in 1..Len(chk.chunks) : Len(chk.chunks[n]) <= chk.targetChars
\* C28 as stated: every chunk chunkText emits is non-empty and not only
\* whitespace, is at most targetChars characters long and is a part of the
\* whitespace-normalized text, and the chunks come in increasing order of
\* their start.
C28_AsStated == chunksWellFormed /\ atMostTarget
\* C28 with the length bound kept to calls whose targetChars is not negative:
\* every chunk chunkText emits is non-empty and not only whitespace and is a
\* part of the whitespace-normalized text, the chunks come in increasing
\* order of their start, and for targetChars >= 0 every chunk is at most
\* targetChars characters long.
C28_ChunksWellFormed == chunksWellFormed /\ (chk.targetChars >= 0 => atMostTarget)
\* a call with a positive targetChars has returned several chunks after
\* discarding a window of whitespace
C28_Witness ==
  /\ chk.pc = "done"
  /\ chk.targetChars >= 1
  /\ Len(chk.chunks) >= 2
  /\ Len(emitted(chk.windows)) < Len(chk.windows)

precedes(a, b) ==
  \/ a.meta.page < b.meta.page
  \/ a.meta.page = b.meta.page /\ a.meta.chunkIndex < b.meta.chunkIndex
\* C30: in every reachable state, whatever other ingestions, removals and
\* rebuilds have run in between, the chunks of one uploaded document (the
\* entries stored under one name) stand in the corpus in ascending order of
\* page and, within a page, of chunk index.
\* Every uploaded file has a stored name of its own here, so the entries
\* stored under one name are the chunks of one document.
C30_DocumentOrderKept ==
  \A m, n \in 1..Len(corpus) :
    (m < n /\ isUpload(corpus[m]) /\ isUpload(corpus[n])
       /\ corpus[m].meta.storedAs = corpus[n].meta.storedAs) =>
      precedes(corpus[m], corpus[n])
\* the two pages of an upload stand in the corpus with a chunk of a public
\* PDF, pushed by a rebuild in between, between them
C30_Witness ==
  \E m, j, n \in 1..Len(corpus) :
    /\ m < j /\ j < n
    /\ isUpload(corpus[m]) /\ isUpload(corpus[n]) /\ isPublic(corpus[j])
    /\ corpus[m].meta.storedAs = corpus[n].meta.storedAs
    /\ corpus[m].meta.page < corpus[n].meta.page

\* ---- C31 ----
\* the alias text of an entry of the corpus: base, version and a newline for
\* an entry of a recognized standard, nothing for any other entry
aliasOf(base, versioned) == IF base # "" THEN base \o " " \o versioned \o "\n" ELSE ""
embeddedText(c) == aliasOf(c.meta.standardBase, c.meta.standardVersion) \o c.chunk
\* the chunks chunkText yields for a public PDF
isChunkOf(chunk, pdfName) ==
  \E n \in 1..Len(chunkText(PublicText(pdfName), TargetChars, Overlap)) :
    chunkText(PublicText(pdfName), TargetChars, Overlap)[n] = chunk
\* C31: every entry of the corpus carries the vector the cache holds under
\* the key of its alias text followed by its chunk, the alias being
\* "<base> <versioned>\n" for a public PDF registerStandardFromFilename
\* recognizes and empty for every other document (uploads included); the
\* chunk stored for display is a chunk chunkText yields, without the alias;
\* and the texts of a suspended embedding request are those alias texts
\* followed by the chunks of the batch (the chunks themselves for an upload).
C31_AliasEmbeddedNotStored ==
  /\ \A n \in 1..Len(corpus) :
       /\ hashText(embeddedText(corpus[n])) \in DOMAIN embedCache
       /\ corpus[n].embedding = embedCache[hashText(embeddedText(corpus[n]))]
       /\ isPublic(corpus[n]) =>
            /\ isChunkOf(corpus[n].chunk, corpus[n].meta.filename)
            /\ corpus[n].meta.standardBase = parseStandard(corpus[n].meta.filename).base
            /\ corpus[n].meta.standardVersion = parseStandard(corpus[n].meta.filename).versioned
       /\ isUpload(corpus[n]) => corpus[n].meta.standardBase = ""
  /\ rx.pc = "embed" =>
       /\ Len(rx.pend.texts) = Len(sliceSeq(rx.chunks, rx.i, rx.i + BatchSize))
       /\ \A n \in 1..Len(rx.pend.texts) :
            rx.pend.texts[n] =
              aliasOf(parseStandard(Head(rx.pdfs)).base, parseStandard(Head(rx.pdfs)).versioned)
                \o rx.chunks[rx.i + n]
  /\ up.pc = "embed" => up.pend.texts = pageChunks(Head(up.pages).text)
\* the corpus holds the chunk "af" of the standard CIP-005-6.pdf, embedded
\* under the key of the alias text and not under the key of the chunk, and a
\* chunk of notes.pdf embedded under the key of the chunk itself
C31_Witness ==
  /\ \E n \in 1..Len(corpus) :
       /\ corpus[n].chunk = "af" /\ corpus[n].meta.filename = "CIP-005-6.pdf"
       /\ corpus[n].meta.standardVersion = "CIP-005-6"
  /\ hashText("CIP-005 CIP-005-6\naf") \in DOMAIN embedCache
  /\ hashText("af") \notin DOMAIN embedCache
  /\ \E n \in 1..Len(corpus) :
       corpus[n].meta.filename = "notes.pdf" /\ corpus[n].meta.standardBase = ""
  /\ hashText("c") \in DOMAIN embedCache

\* ---- C32 ----
\* the identifier of the query and the text of a chunk as the fallback
\* compares them (571-576): lower case, whitespace removed
normIdOf(q) == replaceSpaceRuns(toLowerCase(idMatchFirst(q)), "")
holdsId(c, normId) == includes(replaceSpaceRuns(normalize(c.chunk), ""), normId)
\* the entries of corp that hold the identifier, in corpus order
holdersOf(corp, normId) == SelectSeq(corp, LAMBDA c : holdsId(c, normId))
\* some entry of the ranked, truncated list has a keyword score above 0
keywordSignal(scored) == \E n \in 1..Len(scored) : scored[n].kw > 0
\* the fallback applies: no keyword signal among the top k, an identifier
\* in the query, and a chunk of the corpus that holds it
fallbackApplies(corp, q, qvec, k) ==
  /\ ~keywordSignal(scoredTopK(corp, q, qvec, k))
  /\ idMatchFirst(q) # ""
  /\ holdersOf(corp, normIdOf(q)) # <<>>
\* C32: a direct call retrieveTopK(q, k), 0 <= k, returns the ranked list
\* whenever one of the top k ranked entries has a keyword score above 0, the
\* query holds no identifier, or no chunk of the corpus holds the
\* identifier; otherwise it returns the first k entries of the corpus whose
\* text (lower case, whitespace removed) contains the identifier (lower
\* case, whitespace removed): at most k entries, each one holding it.
C32_FallbackOnlyWithoutSignal ==
  (chat.pc = "returned" /\ chat.direct /\ chat.atCall # <<>>) =>
    IF fallbackApplies(corpus, chat.q, embedTexts(<<chat.q>>)[1], chat.k)
    THEN /\ Len(chat.retrieved) <= chat.k
         /\ \A n \in 1..Len(chat.retrieved) : holdsId(chat.retrieved[n], normIdOf(chat.q))
         /\ chat.retrieved = sliceSeq(holdersOf(corpus, normIdOf(chat.q)), 0, chat.k)
    ELSE chat.retrieved =
           entriesAt(corpus, scoredIdx(scoredTopK(corpus, chat.q, embedTexts(<<chat.q>>)[1],
                                                  chat.k)))
\* a call with k = 2 returned the two chunks of the corpus that hold the
\* identifier of its query, which are not the two top ranked entries
C32_Witness ==
  /\ chat.pc = "returned" /\ chat.direct /\ chat.k = 2
  /\ fallbackApplies(corpus, chat.q, embedTexts(<<chat.q>>)[1], chat.k)
  /\ Len(chat.retrieved) = 2
  /\ chat.retrieved #
       entriesAt(corpus, scoredIdx(scoredTopK(corpus, chat.q, embedTexts(<<chat.q>>)[1],
                                              chat.k)))

\* ---- C33 ----
\* the identifier patterns extracted from the query that occur in the chunk
idHits(q, chunk) ==
  Cardinality({n \in 1..Len(idMatchesFrom(normalize(q), 0)) :
                 includes(normalize(chunk),
                          replaceSpaceRuns(idMatchesFrom(normalize(q), 0)[n], ""))})
\* the fixed phrases of keywordScore (527) that occur in the chunk
phraseHits(chunk) ==
  Cardinality({n \in 1..Len(FixedKeys) : includes(normalize(chunk), FixedKeys[n])})
headerBonus(chunk) == IF hasPurposeHeader(normalize(chunk)) THEN 3 ELSE 0
\* the query mentions the filename or the source label of the entry
mentionsSource(q, c) ==
  \/ c.meta.filename # "" /\ includes(normalize(q), toLowerCase(c.meta.filename))
  \/ c.source # "" /\ includes(normalize(q), toLowerCase(c.source))
boostsOf(q, c) ==
  (IF c.meta.filename # "" /\ includes(normalize(q), toLowerCase(c.meta.filename))
   THEN 5 ELSE 0)
    + (IF c.source # "" /\ includes(normalize(q), toLowerCase(c.source)) THEN 3 ELSE 0)
\* the kw retrieveTopK computes for entry c and query q
kwOf(q, c) == entryKw(queryKeys(q), normalize(q), c)
\* C33 as stated: kw is the identifier hits plus the header bonus plus the
\* filename and source boosts, so a chunk without header token has kw 0 for
\* a query without identifier that does not mention its filename or source.
C33_AsStated ==
  (chat.pc = "returned" /\ chat.direct) =>
    \A n \in 1..Len(corpus) :
      /\ kwOf(chat.q, corpus[n]) =
           idHits(chat.q, corpus[n].chunk) + headerBonus(corpus[n].chunk)
             + boostsOf(chat.q, corpus[n])
      /\ (idMatchFirst(chat.q) = "" /\ ~mentionsSource(chat.q, corpus[n])
            /\ headerBonus(corpus[n].chunk) = 0) => kwOf(chat.q, corpus[n]) = 0
\* C33: the kw of a chunk is the number of identifier patterns extracted
\* from the query that occur in it, plus 1 for each of the six fixed phrases
\* of keywordScore that occur in it, plus 3 when it holds the header token,
\* plus the filename (5) and source-label (3) boosts; so for a query without
\* identifier that mentions neither the filename nor the source label, a
\* chunk with no header token and none of the fixed phrases has kw 0.
C33_KeywordScore ==
  (chat.pc = "returned" /\ chat.direct) =>
    \A n \in 1..Len(corpus) :
      /\ kwOf(chat.q, corpus[n]) =
           idHits(chat.q, corpus[n].chunk) + phraseHits(corpus[n].chunk)
             + headerBonus(corpus[n].chunk) + boostsOf(chat.q, corpus[n])
      /\ (idMatchFirst(chat.q) = "" /\ ~mentionsSource(chat.q, corpus[n])
            /\ headerBonus(corpus[n].chunk) = 0 /\ phraseHits(corpus[n].chunk) = 0)
           => kwOf(chat.q, corpus[n]) = 0
\* a call returned on a corpus with a chunk that scores 1 for the identifier
\* of the query, 2 for fixed phrases and 3 for the header token, and a chunk
\* that scores 0
C33_Witness ==
  /\ chat.pc = "returned" /\ chat.direct
  /\ \E n \in 1..Len(corpus) :
       /\ idHits(chat.q, corpus[n].chunk) = 1 /\ phraseHits(corpus[n].chunk) = 2
       /\ headerBonus(corpus[n].chunk) = 3 /\ kwOf(chat.q, corpus[n]) = 6
  /\ \E n \in 1..Len(corpus) : kwOf(chat.q, corpus[n]) = 0

\* ---- C34 ----
\* the ranking retrieveTopK sorts (542-565) for the call that has returned
rankingOf(corp, q) == scoredUncut(corp, q, embedTexts(<<q>>)[1], Len(corp))
isOne(cos) == cos[1] = cos[2]
isZero(cos) == cos[1] = 0
\* C34: the keyword term min(kw, 6) * 0.3 of an entry never exceeds the
\* greatest cosine term 0.7, and in the ranking of a call that has returned
\* no entry with cosine similarity 0 stands before an entry with cosine
\* similarity 1 and no keyword hits.
C34_KeywordNeverDominates ==
  (chat.pc = "returned" /\ chat.direct) =>
    /\ \A n \in 1..Len(rankingOf(corpus, chat.q)) :
         3 * Min(rankingOf(corpus, chat.q)[n].kw, KeywordCap) <= 7
    /\ \A i, j \in 1..Len(rankingOf(corpus, chat.q)) :
         ~ /\ i < j
           /\ isZero(rankingOf(corpus, chat.q)[i].cos)
           /\ isOne(rankingOf(corpus, chat.q)[j].cos)
           /\ rankingOf(corpus, chat.q)[j].kw = 0

\* ---- C35 ----
\* the window of chunkText that starts at start, before any shortening
fullWindow(clean, start, targetChars) ==
  slice(clean, start, Min(Len(clean), start + targetChars))
endsAtBoundary(chunk) ==
  \/ endsWith(chunk, ".")
  \/ endsWith(chunk, ";")
  \/ endsWith(toLowerCase(chunk), "purpose:")
\* C35: every window chunkText has shortened ends with a period, a
\* semicolon or the complete header token "purpose:" (in any case of
\* letters), its boundary lies past half of targetChars into the window, and
\* the window did not reach the end of the text.  Stated for targetChars >= 1.
C35_ShortenedEndsAtBoundary ==
  \A n \in 1..Len(chk.windows) :
    (chk.targetChars >= 1 /\
     chk.windows[n].chunk # fullWindow(chk.clean, chk.windows[n].start, chk.targetChars)) =>
      /\ endsAtBoundary(chk.windows[n].chunk)
      /\ 2 * (Len(chk.windows[n].chunk) - 1) > chk.targetChars
      /\ chk.windows[n].start + chk.targetChars < Len(chk.clean)

\* ---- C36 ----
\* the entries the ranked, truncated list stands for: its indices taken in
\* the array of the entries with a valid embedding, which is the array the
\* scores were computed on
rankedValid(corp, q, k) ==
  entriesAt(SelectSeq(corp, validEmbedding),
            scoredIdx(scoredTopK(corp, q, embedTexts(<<q>>)[1], k)))
\* C36: a direct call retrieveTopK(q, k) that returns on the ranked path
\* returns the k highest-scoring entries among those with a valid embedding,
\* in ranking order, and no entry without a valid embedding.
C36_RankedAreValidTopK ==
  (chat.pc = "returned" /\ chat.direct /\ chat.atCall # <<>>
     /\ ~fallbackApplies(corpus, chat.q, embedTexts(<<chat.q>>)[1], chat.k)) =>
    /\ chat.retrieved = rankedValid(corpus, chat.q, chat.k)
    /\ \A n \in 1..Len(chat.retrieved) : validEmbedding(chat.retrieved[n])

\* ---- C37 ----
\* the corpus holds chunk number idx of the public PDF exactly once
timesIndexed(corp, pdfName, idx) ==
  Cardinality({n \in 1..Len(corp) :
                 /\ isPublic(corp[n])
                 /\ corp[n].meta.filename = pdfName
                 /\ corp[n].meta.chunkIndex = idx})
indexedOnce(corp, pdfName) ==
  \A idx \in 0..(Len(chunkText(PublicText(pdfName), TargetChars, Overlap)) - 1) :
    timesIndexed(corp, pdfName, idx) = 1
\* no POST /api/reindex is in flight and none has answered with an error
reindexesCompleted ==
  /\ listening
  /\ rx.pc = "idle" /\ rx.res \in {"none", "ok"}
  /\ rx2.pc = "idle" /\ rx2.res \in {"none", "ok"}
\* C37: once every POST /api/reindex has completed successfully, overlapping
\* ones included, the corpus holds each chunk of each PDF of the public
\* directory exactly once.
C37_ReindexNoDuplicates ==
  reindexesCompleted => \A n \in 1..Len(pdfsOf(PublicDir)) : indexedOnce(corpus, pdfsOf(PublicDir)[n])

\* ---- C38 ----
\* the window reaches the end of the normalized text
reachesEnd(clean, w) == w.start + Len(w.chunk) >= Len(clean)
isProperSuffix(s, t) == Len(s) < Len(t) /\ endsWith(t, s)
\* C38: in a call of chunkText with 0 <= overlap < targetChars no chunk is
\* emitted for a window that follows a window that reached the end of the
\* normalized text; a text that is not empty and no longer than targetChars
\* yields exactly one chunk; and no emitted chunk is a proper suffix of the
\* chunk emitted before it.
C38_NothingAfterTheEnd ==
  (0 <= chk.overlap /\ chk.overlap < chk.targetChars) =>
    /\ \A m, n \in 1..Len(chk.windows) :
         (m < n /\ reachesEnd(chk.clean, chk.windows[m])) => ~nonBlank(chk.windows[n])
    /\ (chk.pc = "done" /\ chk.clean # "" /\ Len(chk.clean) <= chk.targetChars) =>
         Len(chk.chunks) = 1
    /\ \A n \in 1..(Len(chk.chunks) - 1) : ~isProperSuffix(chk.chunks[n + 1], chk.chunks[n])

\* ---- C39 ----
\* position pos (0-based) of the normalized text lies inside window w
inWindow(w, pos) == w.start <= pos /\ pos < w.start + Len(w.chunk)
\* position pos lies inside a chunk that was emitted
covered(pos) ==
  \E n \in 1..Len(emitted(chk.windows)) :
    /\ n <= Len(chk.chunks)
    /\ chk.chunks[n] = emitted(chk.windows)[n].chunk
    /\ inWindow(emitted(chk.windows)[n], pos)
\* C39: when a call of chunkText with 0 <= overlap and targetChars >= 1 has
\* returned, every position of the normalized text that holds a character
\* other than whitespace lies inside at least one emitted chunk.
C39_ChunksCoverText ==
  (chk.pc = "done" /\ 0 <= chk.overlap /\ chk.targetChars >= 1) =>
    \A pos \in 0..(Len(chk.clean) - 1) :
      ~IsSpace(charAt(chk.clean, pos)) => covered(pos)
\* a call without overlap on a text longer than targetChars has returned
\* after it shortened a window at a stop
C39_Witness ==
  /\ chk.pc = "done" /\ chk.overlap = 0 /\ chk.targetChars >= 1
  /\ Len(chk.chunks) >= 2
  /\ \E n \in 1..Len(chk.windows) :
       chk.windows[n].chunk # fullWindow(chk.clean, chk.windows[n].start, chk.targetChars)
  /\ Len(chk.clean) > chk.targetChars

\* ---- C40 ----
\* DELETE /api/uploads/<name> gets past its two checks (480-489)
removalFinds(corp, name) == isSafeStoredName(name) /\ name \in listUploadedFromCorpus(corp)
\* C40: whenever no upload request and no removal request is in flight,
\* every file of the upload directory is found by DELETE /api/uploads/<its
\* stored name>: the request is not answered 'not found'.
C40_StoredFilesRemovable ==
  (listening /\ up.pc = "idle" /\ del.pc = "idle") =>
    \A name \in uploadDir : removalFinds(corpus, name)
====
